---- MODULE Spec2Model ----
(***************************************************************************)
(* BRAssetBundler: pack assignment and archive reconciliation.             *)
(*                                                                         *)
(* The module models                                                       *)
(*   - the identity-keyed pack map (AddAssetPackInfoToMap,                 *)
(*     RemoveAssetPackInfoFromMap) of source/utils.cpp,                    *)
(*   - AssetGraphWalker::CascadeValuesToMap / SetValueToDescendants,       *)
(*   - the asset-hint codec (WriteAssetHints, ReadAssetHints,              *)
(*     AssetPackInfo::JsonStore / JsonLoad),                               *)
(*   - ApplicationManager::MergeArchiveInfo,                               *)
(*   - the log writer WriteProfilingLogs,                                  *)
(*   - the path-keyed pack map,                                            *)
(*   - the parallel platform pipelines of                                  *)
(*     ApplicationManager::RunPlatformSpecificAssetListCommands,           *)
(*   - the parallel workers of RunBundlesCommands and                      *)
(*     RunMergeAssetHintsCommands.                                         *)
(* Each part has its own specification over the shared variable list; the  *)
(* variables of the other parts stay at their idle values.                 *)
(***************************************************************************)
EXTENDS Integers, Sequences, FiniteSets, TLC

VARIABLES
    \* identity-keyed map operations
    infoMap,        \* AssetPackInfoMap: asset id -> AssetPackInfo
    passed,         \* history: asset id -> pack ids passed to the inserts of the current key
    lastRet,        \* return value of the last AddAssetPackInfoToMap call
    \* AssetGraphWalker
    outMap,         \* AssetPackInfoMap relabelled by the cascade
    outMap0,        \* history: outMap when CascadeValuesToMap was entered
    sourcePackIdMap,\* IdAssetIdListMap: pack id -> seed asset ids
    deps,           \* dependency oracle: asset id -> direct dependencies, or Failure
    exclusionList,  \* asset ids to skip
    wildcardMatch,  \* asset ids that match a pattern of wildcardPatternExclusionList
    packsLeft,      \* pack ids the outer loop has still to visit
    seedsLeft,      \* seeds of the current pack the inner loop has still to visit
    curPack,        \* iter->first of the outer loop
    stack,          \* active SetValueToDescendants calls
    cyclicalDependencySet,
    writes,         \* history: asset id -> number of m_packId assignments
    wpc,            \* position of the cascade
    \* asset-hint codec
    hintCollection, \* IdPackInfoListMap handed to WriteAssetHints
    hintFile,       \* the hint file on disk
    hintWritten,    \* WriteAssetHints has replaced the file
    catalog,        \* asset catalog: id by path, path by id
    delivered,      \* the records handed to the callback, in order
    readAt,         \* <<member, element>> the read has come to
    hpc,            \* position of the codec
    \* ApplicationManager::MergeArchiveInfo
    archiveInfoMap, \* PathPackInfoMap of the archive listing
    destInfoMap,    \* PathPackInfoMap the listing is merged into
    destInfoMap0,   \* history: destInfoMap before the first merge
    merges,         \* number of MergeArchiveInfo calls made
    \* WriteProfilingLogs
    logInfoMap,     \* IdPackInfoListMap handed to the writer
    logArchiveInfoMap, \* PathPackInfoMap handed to the writer
    logFile,        \* the file at filePath
    logFile0,       \* history: the file when the writer was called
    writtenFor,     \* history: for each line of logFile, the pack id of its group
    openAttempted,  \* the FileIOStream has been constructed
    logError,       \* the error string of the failure the writer returned
    groupsLeft,     \* pack ids the outer loop has still to visit
    infosLeft,      \* records of the current group the inner loop has still to visit
    uCtr,
    lpc,            \* position of the writer
    \* path-keyed map operations
    pathInfoMap,    \* PathPackInfoMap: relative path -> AssetPackInfo
    pathPassed,     \* history: relative path -> pack ids passed to the inserts of the path
    pathRet,        \* return value of the last path-keyed AddAssetPackInfoToMap call
    \* RunPlatformSpecificAssetListCommands
    m_seedList,     \* params.m_seedList: pack id -> seed paths
    m_levelsPackIdMapping, \* params.m_levelsPackIdMapping: pack id -> assets of levels
    seedsToGo,      \* platform -> seeds the loop of AddOrRemoveSeeds has still to visit
    m_assetSeedManager, \* the seeds of the one AssetSeedManager: <<path, platform>>
    inCall,         \* platform -> the access its call of the seed manager is making
    ppc,            \* platform -> position of its worker
    seedIter,       \* platform -> pack id of the seed group its loop is at
    assetMap,       \* platform -> the assetMap of the current seed group
    allAssetMap,    \* platform -> the allAssetMap of the worker
    pakAssetHintFiles, \* platform -> the hint file written for the platform
    readers,        \* history: object -> workers that have read it
    writers,        \* history: object -> workers that have written it
    \* RunBundlesCommands / RunMergeAssetHintsCommands
    command,        \* the command that runs the batch
    bpc,            \* worker -> stage and position of the worker
    failureCount,   \* AZStd::atomic_uint failureCount
    tookErrorPath,  \* history: workers that logged an error and returned
    result,         \* the value the command returned
    \* RunSeedsCommands
    seedsParams,    \* SeedsParams: m_packId, m_addSeedList, m_removeSeedList
    seedAllAssetMap,\* the allAssetMap of the command
    spc             \* position of the command

mapVars  == <<infoMap, passed, lastRet>>
walkVars == <<outMap, outMap0, sourcePackIdMap, deps, exclusionList, wildcardMatch,
              packsLeft, seedsLeft, curPack, stack, cyclicalDependencySet, writes, wpc>>
hintVars == <<hintCollection, hintFile, hintWritten, catalog, delivered, readAt, hpc>>
mergeVars == <<archiveInfoMap, destInfoMap, destInfoMap0, merges>>
logVars  == <<logInfoMap, logArchiveInfoMap, logFile, logFile0, writtenFor, openAttempted,
              logError,
              groupsLeft, infosLeft, uCtr, lpc>>
pathVars == <<pathInfoMap, pathPassed, pathRet>>
platVars == <<m_seedList, m_levelsPackIdMapping, seedsToGo, m_assetSeedManager, inCall,
              ppc, seedIter, assetMap,
              allAssetMap, pakAssetHintFiles, readers, writers>>
batchVars == <<command, bpc, failureCount, tookErrorPath, result>>
seedVars == <<seedsParams, seedAllAssetMap, spc>>
vars == <<mapVars, walkVars, hintVars, mergeVars, logVars, pathVars, platVars, batchVars,
          seedVars>>

\* what the actions of one part leave alone
notMapVars   == <<walkVars, hintVars, mergeVars, logVars, pathVars, platVars, batchVars, seedVars>>
notWalkVars  == <<mapVars, hintVars, mergeVars, logVars, pathVars, platVars, batchVars, seedVars>>
notHintVars  == <<mapVars, walkVars, mergeVars, logVars, pathVars, platVars, batchVars, seedVars>>
notMergeVars == <<mapVars, walkVars, hintVars, logVars, pathVars, platVars, batchVars, seedVars>>
notLogVars   == <<mapVars, walkVars, hintVars, mergeVars, pathVars, platVars, batchVars, seedVars>>
notPathVars  == <<mapVars, walkVars, hintVars, mergeVars, logVars, platVars, batchVars, seedVars>>
notPlatVars  == <<mapVars, walkVars, hintVars, mergeVars, logVars, pathVars, batchVars, seedVars>>
notBatchVars == <<mapVars, walkVars, hintVars, mergeVars, logVars, pathVars, platVars, seedVars>>
notSeedVars  == <<mapVars, walkVars, mergeVars, logVars, pathVars, platVars, batchVars>>

----------------------------------------------------------------------------
(* Bounds *)

NumAssets == 3          \* valid asset ids are 1..NumAssets
MaxPackId == 2          \* pack ids are 0..MaxPackId
MaxMapId  == 1          \* keys of the identity-keyed map operations are 0..MaxMapId

\* AZ::Data::AssetId() : the invalid asset id
InvalidAssetId == 0

AssetIds == 1..NumAssets
AllIds   == {InvalidAssetId} \cup AssetIds
PackIds  == 0..MaxPackId
MapIds   == InvalidAssetId..MaxMapId
Paths    == {"", "a", "b"}

IsValid(assetId) == assetId # InvalidAssetId

Min(S) == CHOOSE x \in S : \A y \in S : x <= y
Max(S) == CHOOSE x \in S : \A y \in S : x >= y

\* AssetPackInfo(assetId, path, packId); the archive coordinates default to 0 / ""
AssetPackInfo(assetId, path, packId) ==
    [m_assetId |-> assetId, m_assetRelativePath |-> path, m_packId |-> packId,
     m_bundlePath |-> "", m_offset |-> 0, m_size |-> 0,
     m_headerOffset |-> 0, m_headerSize |-> 0]

MapPutMutant(m, k, v) == [x \in DOMAIN m \cup {k} |-> v]
\* std::map operator[] assignment
MapPut(m, k, v) == [x \in DOMAIN m \cup {k} |-> IF x = k THEN v ELSE m[x]]
\* std::map erase
MapErase(m, k) == [x \in DOMAIN m \ {k} |-> m[x]]
EmptyMap == <<>>

----------------------------------------------------------------------------
(* Identity-keyed map: utils.cpp AddAssetPackInfoToMap *)

\* an existing key keeps its record and takes the lower pack id
LowerPackMutant(m, assetId, uPackId) == [m EXCEPT ![assetId].m_packId = uPackId]
LowerPack(m, assetId, uPackId) ==
    IF uPackId < m[assetId].m_packId
        THEN [m EXCEPT ![assetId].m_packId = uPackId]
        ELSE m

\* bool AddAssetPackInfoToMap(AssetPackInfoMap&, AssetId, const string&, u32)
AddAssetPackInfoToMap(assetId, assetRelativePath, uPackId) ==
    /\ IF assetId \in DOMAIN infoMap
          THEN /\ infoMap' = LowerPack(infoMap, assetId, uPackId)
               /\ lastRet' = TRUE
          ELSE /\ infoMap' = MapPut(infoMap, assetId,
                                    AssetPackInfo(assetId, assetRelativePath, uPackId))
               /\ lastRet' = FALSE
    /\ passed' = [passed EXCEPT ![assetId] = @ \cup {uPackId}]
    /\ UNCHANGED notMapVars

\* bool AddAssetPackInfoToMap(AssetPackInfoMap&, const AssetPackInfo&)
AddAssetPackInfoToMapInfo(packInfo) ==
    /\ IF packInfo.m_assetId \in DOMAIN infoMap
          THEN /\ infoMap' = LowerPack(infoMap, packInfo.m_assetId, packInfo.m_packId)
               /\ lastRet' = TRUE
          ELSE /\ infoMap' = MapPut(infoMap, packInfo.m_assetId, packInfo)
               /\ lastRet' = FALSE
    /\ passed' = [passed EXCEPT ![packInfo.m_assetId] = @ \cup {packInfo.m_packId}]
    /\ UNCHANGED notMapVars

\* void RemoveAssetPackInfoFromMap(AssetPackInfoMap&, const AssetId&)
RemoveAssetPackInfoFromMap(assetId) ==
    /\ assetId \in DOMAIN infoMap
    /\ infoMap' = MapErase(infoMap, assetId)
    /\ passed' = [passed EXCEPT ![assetId] = {}]
    /\ UNCHANGED <<lastRet, notMapVars>>

MapIdle == /\ infoMap = EmptyMap
           /\ passed = [a \in MapIds |-> {}]
           /\ lastRet = FALSE

WalkIdle == /\ outMap = EmptyMap
            /\ outMap0 = EmptyMap
            /\ sourcePackIdMap = EmptyMap
            /\ deps = EmptyMap
            /\ exclusionList = {}
            /\ wildcardMatch = {}
            /\ packsLeft = {}
            /\ seedsLeft = {}
            /\ curPack = 0
            /\ stack = <<>>
            /\ cyclicalDependencySet = {}
            /\ writes = EmptyMap
            /\ wpc = "idle"

NoFile == [exists |-> FALSE, parseError |-> FALSE, members |-> <<>>]

HintIdle == /\ hintCollection = EmptyMap
            /\ hintFile = NoFile
            /\ hintWritten = FALSE
            /\ catalog = EmptyMap
            /\ delivered = <<>>
            /\ readAt = <<1, 1>>
            /\ hpc = "idle"

MergeIdle == /\ archiveInfoMap = EmptyMap
             /\ destInfoMap = EmptyMap
             /\ destInfoMap0 = EmptyMap
             /\ merges = 0

NoLog == [exists |-> FALSE, lines |-> <<>>]

LogIdle == /\ logInfoMap = EmptyMap
           /\ logArchiveInfoMap = EmptyMap
           /\ logFile = NoLog
           /\ logFile0 = NoLog
           /\ writtenFor = <<>>
           /\ openAttempted = FALSE
           /\ logError = ""
           /\ groupsLeft = <<>>
           /\ infosLeft = {}
           /\ uCtr = 0
           /\ lpc = "idle"

PathIdle == /\ pathInfoMap = EmptyMap
            /\ pathPassed = [path \in Paths \ {""} |-> {}]
            /\ pathRet = FALSE

PlatIdle == /\ m_seedList = EmptyMap
            /\ m_levelsPackIdMapping = EmptyMap
            /\ seedsToGo = EmptyMap
            /\ m_assetSeedManager = {}
            /\ inCall = EmptyMap
            /\ ppc = EmptyMap
            /\ seedIter = EmptyMap
            /\ assetMap = EmptyMap
            /\ allAssetMap = EmptyMap
            /\ pakAssetHintFiles = EmptyMap
            /\ readers = EmptyMap
            /\ writers = EmptyMap

BatchIdle == /\ command = "idle"
             /\ bpc = EmptyMap
             /\ failureCount = 0
             /\ tookErrorPath = {}
             /\ result = "none"

SeedIdle == /\ seedsParams = EmptyMap
            /\ seedAllAssetMap = EmptyMap
            /\ spc = "idle"

Init == /\ MapIdle /\ WalkIdle /\ HintIdle /\ MergeIdle /\ LogIdle /\ PathIdle
        /\ PlatIdle /\ BatchIdle /\ SeedIdle

Next ==
    \/ \E a \in MapIds, p \in Paths, k \in PackIds : AddAssetPackInfoToMap(a, p, k)
    \/ \E a \in MapIds, p \in Paths, k \in PackIds :
           AddAssetPackInfoToMapInfo(AssetPackInfo(a, p, k))
    \/ \E a \in MapIds : RemoveAssetPackInfoFromMap(a)

Spec == Init /\ [][Next]_vars

\* the sequences of inserts on two keys, the invalid asset id and a valid one
InsertIds == {InvalidAssetId, MaxMapId}

NextInserts ==
    \/ \E a \in InsertIds, p \in Paths, k \in PackIds : AddAssetPackInfoToMap(a, p, k)
    \/ \E a \in InsertIds, p \in Paths, k \in PackIds :
           AddAssetPackInfoToMapInfo(AssetPackInfo(a, p, k))

SpecInserts == Init /\ [][NextInserts]_vars

----------------------------------------------------------------------------
(* AssetGraphWalker: CascadeValuesToMap / SetValueToDescendants *)

MaxEdges    == 2        \* dependency edges of an enumerated oracle
MaxSeeds    == 3        \* (pack id, seed) pairs of an enumerated sourcePackIdMap
MaxDepth    == NumAssets + 1    \* call depth no walk of NumAssets assets reaches

\* AZ::Outcome of GetDirectProductDependencies
Success(entries) == [isSuccess |-> TRUE, value |-> entries]
Failure == [isSuccess |-> FALSE, value |-> {}]

\* GetDirectProductDependencies: the entries of an asset, or a Failure
GetDirectProductDependencies(assetId) == deps[assetId]

\* DoesAssetIdMatchWildcardPattern: a pattern is given by the asset ids it matches
DoesAssetIdMatchWildcardPattern(assetId, wildcardPattern) == assetId \in wildcardPattern

\* the loop over wildcardPatternExclusionList; it is asked about assetId, the asset
\* whose entries are walked
WildcardPatternMatch(assetId) ==
    \E wildcardPattern \in wildcardMatch :
        DoesAssetIdMatchWildcardPattern(assetId, wildcardPattern)

\* the three `continue`s that precede the assignment
SkipEntry(assetId, dep) ==
    \/ ~IsValid(dep)
    \/ dep \in exclusionList
    \/ WildcardPatternMatch(assetId)

\* the outer loop runs from rbegin to rend: the highest pack id left comes next
RBeginMutant(packs) == Min(packs)
RBegin(packs) == Max(packs)

\* Cyclical Dependency detection
OnCurrentPathMutant(dep, pathSet) == FALSE
OnCurrentPath(dep, pathSet) == dep \in pathSet

\* outMap.count(assetId) > 0
HasKeyMutant(m, assetId) == TRUE
HasKey(m, assetId) == assetId \in DOMAIN m

\* outMap[assetId]: the record of the key; operator[] makes a default-constructed
\* record for an asset id that is no key
At(m, assetId) ==
    IF assetId \in DOMAIN m THEN m[assetId] ELSE AssetPackInfo(InvalidAssetId, "", 0)

\* outMap[assetId].m_packId = uPackId, for a key of the map
SetPackIdMutant(m, assetId, uPackId) ==
    IF assetId \in DOMAIN m /\ uPackId > m[assetId].m_packId
        THEN [m EXCEPT ![assetId].m_packId = uPackId] ELSE m
SetPackId(m, assetId, uPackId) ==
    IF ~HasKey(m, assetId) THEN m
    ELSE IF assetId \in DOMAIN m THEN [m EXCEPT ![assetId].m_packId = uPackId]
    ELSE MapPut(m, assetId, [At(m, assetId) EXCEPT !.m_packId = uPackId])

CountWrite(w, m, assetId) ==
    IF assetId \in DOMAIN m THEN [w EXCEPT ![assetId] = @ + 1] ELSE w

\* the call SetValueToDescendants(assetId, ...) up to the loop over the entries:
\* a failed lookup returns at once, otherwise assetId joins cyclicalDependencySet
EnterSetValueToDescendants(assetId, stk, pathSet) ==
    IF ~GetDirectProductDependencies(assetId).isSuccess
        THEN /\ stack' = stk
             /\ cyclicalDependencySet' = pathSet
             /\ wpc' = wpc
        ELSE IF Len(stk) >= MaxDepth
            THEN /\ stack' = stk
                 /\ cyclicalDependencySet' = pathSet
                 /\ wpc' = "overflow"
            ELSE /\ stack' = Append(stk, [assetId |-> assetId,
                                          todo |-> GetDirectProductDependencies(assetId).value])
                 /\ cyclicalDependencySet' = pathSet \cup {assetId}
                 /\ wpc' = wpc

\* CascadeValuesToMap, outer loop: next pack id, or the end of the cascade
NextPack ==
    /\ wpc = "outer"
    /\ IF packsLeft = {}
          THEN /\ wpc' = "done"
               /\ UNCHANGED <<packsLeft, seedsLeft, curPack>>
          ELSE /\ curPack' = RBegin(packsLeft)
               /\ seedsLeft' = sourcePackIdMap[RBegin(packsLeft)]
               /\ packsLeft' = packsLeft \ {RBegin(packsLeft)}
               /\ wpc' = "inner"
    /\ UNCHANGED <<outMap, outMap0, sourcePackIdMap, deps, exclusionList, wildcardMatch,
                   stack, cyclicalDependencySet, writes, notWalkVars>>

\* CascadeValuesToMap, inner loop: the next seed of the pack (an unordered_set, so
\* any order), its own assignment and the call of the walk
NextSeed ==
    /\ wpc = "inner"
    /\ stack = <<>>
    /\ IF seedsLeft = {}
          THEN /\ wpc' = "outer"
               /\ UNCHANGED <<seedsLeft, outMap, writes, stack, cyclicalDependencySet>>
          ELSE \E assetId \in seedsLeft :
               /\ seedsLeft' = seedsLeft \ {assetId}
               /\ IF HasKey(outMap, assetId)
                     THEN /\ outMap' = SetPackId(outMap, assetId, curPack)
                          /\ writes' = CountWrite(writes, outMap, assetId)
                          /\ EnterSetValueToDescendants(assetId, <<>>, {})
                     ELSE /\ cyclicalDependencySet' = {}
                          /\ UNCHANGED <<outMap, writes, stack, wpc>>
    /\ UNCHANGED <<outMap0, sourcePackIdMap, deps, exclusionList, wildcardMatch,
                   packsLeft, curPack, notWalkVars>>

\* SetValueToDescendants, one pass of the loop over the entries
VisitEntry ==
    /\ wpc = "inner"
    /\ stack # <<>>
    /\ \E dep \in stack[Len(stack)].todo :
        LET assetId == stack[Len(stack)].assetId
            rest == [stack EXCEPT ![Len(stack)].todo = @ \ {dep}]
        IN  IF SkipEntry(assetId, dep)
                THEN /\ stack' = rest
                     /\ UNCHANGED <<outMap, writes, cyclicalDependencySet, wpc>>
                ELSE /\ outMap' = SetPackId(outMap, dep, curPack)
                     /\ writes' = CountWrite(writes, outMap, dep)
                     /\ IF OnCurrentPath(dep, cyclicalDependencySet)
                           THEN /\ stack' = rest
                                /\ UNCHANGED <<cyclicalDependencySet, wpc>>
                           ELSE EnterSetValueToDescendants(dep, rest, cyclicalDependencySet)
    /\ UNCHANGED <<outMap0, sourcePackIdMap, deps, exclusionList, wildcardMatch,
                   packsLeft, seedsLeft, curPack, notWalkVars>>

\* cyclicalDependencySet->erase(assetId)
EraseMutant(pathSet, assetId) == pathSet
Erase(pathSet, assetId) == pathSet \ {assetId}

\* SetValueToDescendants, after the loop: erase assetId and return
ReturnFromDescendants ==
    /\ wpc = "inner"
    /\ stack # <<>>
    /\ stack[Len(stack)].todo = {}
    /\ cyclicalDependencySet' = Erase(cyclicalDependencySet, stack[Len(stack)].assetId)
    /\ stack' = SubSeq(stack, 1, Len(stack) - 1)
    /\ UNCHANGED <<outMap, outMap0, sourcePackIdMap, deps, exclusionList, wildcardMatch,
                   packsLeft, seedsLeft, curPack, writes, wpc, notWalkVars>>

NextCascade == NextPack \/ NextSeed \/ VisitEntry \/ ReturnFromDescendants

(* The inputs of the cascade.  Asset ids are interchangeable, so of the seed
   maps that differ only by a renaming of the assets one is enumerated: the one
   whose assets are ordered by the packs they seed. *)

EdgeSets(maxEdges) ==
    {E \in SUBSET (AssetIds \X AssetIds) : Cardinality(E) <= maxEdges}

SeedSignature(R, assetId) ==
    LET bit(p) == IF <<p, assetId>> \in R THEN 2^p ELSE 0
        sum[p \in -1..MaxPackId] == IF p < 0 THEN 0 ELSE bit(p) + sum[p - 1]
    IN  sum[MaxPackId]

SeedRelations(maxSeeds) ==
    {R \in SUBSET (PackIds \X AssetIds) :
        /\ Cardinality(R) <= maxSeeds
        /\ \A a \in AssetIds \ {NumAssets} :
               SeedSignature(R, a) >= SeedSignature(R, a + 1)}

\* The walk treats all assets alike, so of the inputs that differ by a renaming
\* of the assets one is enough: the one whose assets are in the order of their
\* seed signature, then of their numbers of outgoing and of incoming edges.
AssetRank(E, R, assetId) ==
    LET out == Cardinality({e \in E : e[1] = assetId})
        in == Cardinality({e \in E : e[2] = assetId})
    IN  (SeedSignature(R, assetId) * (NumAssets + 1) + out) * (NumAssets + 1) + in

Ranked(E, R) ==
    \A a \in AssetIds \ {NumAssets} : AssetRank(E, R, a) >= AssetRank(E, R, a + 1)

SeedMapOf(R) ==
    [p \in {r[1] : r \in R} |-> {r[2] : r \in {x \in R : x[1] = p}}]

PathOf(assetId) == IF assetId % 2 = 1 THEN "a" ELSE "b"

Deviations == {"nonkey", "excluded", "failure", "pattern", "invalid"}

\* the state on entry of CascadeValuesToMap for one choice of the inputs
CascadeEntry(E, R, keys, pack0, excluded, failing, patterns, invalidAt) ==
    /\ outMap = [a \in keys |-> AssetPackInfo(a, PathOf(a), pack0)]
    /\ outMap0 = outMap
    /\ sourcePackIdMap = SeedMapOf(R)
    /\ deps = [a \in AssetIds |->
                  IF a \in failing THEN Failure
                  ELSE Success({e[2] : e \in {x \in E : x[1] = a}}
                       \cup (IF a \in invalidAt THEN {InvalidAssetId} ELSE {}))]
    /\ exclusionList = excluded
    /\ wildcardMatch = patterns
    /\ packsLeft = DOMAIN sourcePackIdMap
    /\ seedsLeft = {}
    /\ curPack = 0
    /\ stack = <<>>
    /\ cyclicalDependencySet = {}
    /\ writes = [a \in AssetIds |-> 0]
    /\ wpc = "outer"

\* every oracle within the bounds and every seed map with a seed less, over a
\* map that holds every asset
PlainInputs ==
    \E E \in EdgeSets(MaxEdges), R \in SeedRelations(MaxSeeds - 1), pack0 \in {0, MaxPackId} :
        /\ Ranked(E, R)
        /\ CascadeEntry(E, R, AssetIds, pack0, {}, {}, {}, {})

\* one asset that is not a key, is excluded, has a failing lookup, matches a
\* wildcard pattern or has an invalid entry, under the seed maps with two seeds less
DeviatingInputs ==
    \E E \in EdgeSets(MaxEdges), R \in SeedRelations(MaxSeeds - 2),
       x \in AssetIds, kind \in Deviations :
        /\ Ranked(E, R)
        /\ CascadeEntry(E, R,
            IF kind = "nonkey" THEN AssetIds \ {x} ELSE AssetIds,
            MaxPackId,
            IF kind = "excluded" THEN {x} ELSE {},
            IF kind = "failure" THEN {x} ELSE {},
            IF kind = "pattern" THEN {{x}} ELSE {},
            IF kind = "invalid" THEN {x} ELSE {})

\* an asset of the exclusion list, or one that matches a wildcard pattern, under
\* the seed maps with one seed for each of two packs: several packs and an
\* exclusion in one cascade
ExclusionInputs ==
    \E high \in PackIds \X AssetIds, low \in PackIds \X AssetIds :
        /\ low[1] < high[1]
        /\ {high, low} \in SeedRelations(Cardinality({high, low}))
        /\ \E E \in EdgeSets(MaxEdges), x \in AssetIds, kind \in {"excluded", "pattern"} :
            /\ Ranked(E, {high, low})
            /\ CascadeEntry(E, {high, low}, AssetIds, MaxPackId,
                IF kind = "excluded" THEN {x} ELSE {},
                {},
                IF kind = "pattern" THEN {{x}} ELSE {},
                {})

\* the cycle through all assets, 1 -> 2 -> ... -> NumAssets -> 1
RingEdges == {<<a, (a % NumAssets) + 1>> : a \in AssetIds}

\* the cycle through all assets under every seed map within the bounds
RingInputs ==
    \E R \in {S \in SUBSET (PackIds \X AssetIds) : Cardinality(S) <= MaxSeeds} :
        CascadeEntry(RingEdges, R, AssetIds, MaxPackId, {}, {}, {}, {})

InitCascade ==
    /\ MapIdle /\ HintIdle /\ MergeIdle /\ LogIdle /\ PathIdle /\ PlatIdle /\ BatchIdle /\ SeedIdle
    /\ (PlainInputs \/ DeviatingInputs \/ ExclusionInputs \/ RingInputs)

SpecCascade == InitCascade /\ [][NextCascade]_vars

\* the walk is sequential code: it takes its next step as long as it has one
FairSpecCascade == SpecCascade /\ WF_vars(NextCascade)

----------------------------------------------------------------------------
(* Asset-hint codec: WriteAssetHints / ReadAssetHints, JsonStore / JsonLoad *)

MaxRecords == 2         \* records of an enumerated collection

\* pack ids of the enumerated collections; one of them has two decimal digits
HintPackIds == {0, 1, 10 + MaxPackId}

GuidKey == "guid"
SubIdKey == "subId"
AssetHintKey == "assetHint"

\* the digits of n, most significant first
RECURSIVE ToDigits(_, _)
ToDigits(n, base) ==
    IF n < base THEN <<n>> ELSE Append(ToDigits(n \div base, base), n % base)

RECURSIVE FromDigits(_, _)
FromDigits(digits, base) ==
    IF digits = <<>> THEN 0
    ELSE FromDigits(SubSeq(digits, 1, Len(digits) - 1), base) * base + digits[Len(digits)]

\* AZStd::to_string(u32) and AZStd::stoi, for values below 2^31
to_string(n) == ToDigits(n, 10)
stoiMutant(str) == str[Len(str)]
stoi(str) == FromDigits(str, 10)

\* the two components of an asset id; the asset ids of the model have the guid
\* of their number and a sub id above 9, the invalid id has the null guid
Guid(assetId) == assetId
SubId(assetId) == IF assetId = InvalidAssetId THEN 0 ELSE 10 + assetId

\* Uuid::ToString and the "%s:%x" string JsonLoad hands to AssetId::CreateString
GuidToString(guid) == <<"{", guid, "}">>
FormatAssetIdStr(guidString, subId) == <<guidString, ":", ToDigits(subId, 16)>>

\* AssetId::CreateString: guid, then the sub id in hexadecimal; a string that
\* names no asset id of the model gives the invalid id
CreateString(assetIdStr) ==
    LET guid == assetIdStr[1][2]
        subId == FromDigits(assetIdStr[3], 16)
        named == {a \in MapIds : Guid(a) = guid /\ SubId(a) = subId}
    IN  IF named = {} THEN InvalidAssetId ELSE CHOOSE a \in named : TRUE

\* utils.cpp GetAssetIdByPath / GetAssetPathById, asked for one platform
GetAssetIdByPath(assetPath) == catalog.idByPath[assetPath]
GetAssetPathById(assetId) == catalog.pathById[assetId]

EmptyObject == <<>>
HasMember(jsonObject, key) == key \in DOMAIN jsonObject

\* AssetPackInfo::JsonStore: the members written for one record
JsonStore(info) ==
    (IF IsValid(info.m_assetId)
        THEN (GuidKey :> GuidToString(Guid(info.m_assetId)))
             @@ (SubIdKey :> SubId(info.m_assetId))
        ELSE EmptyObject)
    @@ (IF info.m_assetRelativePath # ""
        THEN (AssetHintKey :> info.m_assetRelativePath)
        ELSE EmptyObject)

\* JsonStore returns an error string that is not empty; WriteAssetHints drops it
JsonStoreError(info) == ~IsValid(info.m_assetId) /\ info.m_assetRelativePath = ""

Loaded(assetId, path, packId) ==
    [crashed |-> FALSE, info |-> AssetPackInfo(assetId, path, packId)]
Crashed == [crashed |-> TRUE, info |-> AssetPackInfo(InvalidAssetId, "", 0)]

\* AssetPackInfo::JsonLoad: the record loaded from one asset object.  With
\* neither guid+subId nor assetHint the else branch dereferences the end iterator
\* FindMember returns: the read crashes or goes on with some asset id.
JsonLoad(packId, jsonObject) ==
    LET bNoAssetId == ~HasMember(jsonObject, GuidKey) \/ ~HasMember(jsonObject, SubIdKey)
        bNoAssetHint == ~HasMember(jsonObject, AssetHintKey)
        path == IF bNoAssetHint THEN "" ELSE jsonObject[AssetHintKey]
    IN  IF bNoAssetId /\ ~bNoAssetHint
            THEN {Loaded(GetAssetIdByPath(path), path, packId)}
        ELSE IF bNoAssetId
            THEN {Crashed} \cup {Loaded(garbage, path, packId) : garbage \in MapIds}
        ELSE LET assetId == CreateString(FormatAssetIdStr(jsonObject[GuidKey],
                                                           jsonObject[SubIdKey]))
             IN  {Loaded(assetId,
                         IF bNoAssetHint THEN GetAssetPathById(assetId) ELSE path,
                         packId)}

\* the orders in which an unordered_set can be iterated
Orders(S) ==
    {q \in [1..Cardinality(S) -> S] : \A i, j \in 1..Cardinality(S) : q[i] = q[j] => i = j}

\* the packs of a map in ascending order
RECURSIVE Ascending(_)
Ascending(packs) ==
    IF packs = {} THEN <<>> ELSE <<Min(packs)>> \o Ascending(packs \ {Min(packs)})

\* the member WriteAssetHints adds for one pack, the group iterated in order q
MemberOf(packId, q) ==
    [name |-> to_string(packId), isArray |-> TRUE,
     value |-> [i \in DOMAIN q |-> JsonStore(q[i])]]

\* if (!packInfo.second.empty()) guards AddMember: an empty group adds no member
SkipsGroupMutant(group) == FALSE
SkipsGroup(group) == group = {}

\* the documents WriteAssetHints can build: a member per pack with a non-empty
\* group, in ascending pack order
RECURSIVE Documents(_, _)
Documents(infoMap_, packs) ==
    IF packs = <<>> THEN {<<>>}
    ELSE LET packId == Head(packs)
             rest == Documents(infoMap_, Tail(packs))
         IN  IF SkipsGroup(infoMap_[packId]) THEN rest
             ELSE {<<MemberOf(packId, q)>> \o d : q \in Orders(infoMap_[packId]), d \in rest}

\* void WriteAssetHints(IdPackInfoListMap, const string&): nothing for an empty
\* map; a failed WriteJsonFile is logged and leaves the file as it was
WriteAssetHints ==
    /\ hpc = "write"
    /\ IF hintCollection = EmptyMap
          THEN UNCHANGED <<hintFile, hintWritten>>
          ELSE \/ \E d \in Documents(hintCollection, Ascending(DOMAIN hintCollection)) :
                    /\ hintFile' = [exists |-> TRUE, parseError |-> FALSE, members |-> d]
                    /\ hintWritten' = TRUE
               \/ UNCHANGED <<hintFile, hintWritten>>
    /\ hpc' = "read"
    /\ UNCHANGED <<hintCollection, catalog, delivered, readAt, notHintVars>>

\* ReadAssetHints up to the loop over the members: ReadFile and Parse
ReadAssetHints ==
    /\ hpc = "read"
    /\ hpc' = IF hintFile.exists /\ ~hintFile.parseError THEN "members" ELSE "failure"
    /\ UNCHANGED <<hintCollection, hintFile, hintWritten, catalog, delivered, readAt,
                   notHintVars>>

\* ReadAssetHints, the loop over the members: the end of the document, a member
\* that is no array, or the end of an array
ReadMember ==
    /\ hpc = "members"
    /\ IF readAt[1] > Len(hintFile.members)
          THEN hpc' = "success" /\ UNCHANGED readAt
          ELSE IF ~hintFile.members[readAt[1]].isArray
              THEN hpc' = "failure" /\ UNCHANGED readAt
              ELSE /\ readAt[2] > Len(hintFile.members[readAt[1]].value)
                   /\ readAt' = <<readAt[1] + 1, 1>>
                   /\ UNCHANGED hpc
    /\ UNCHANGED <<hintCollection, hintFile, hintWritten, catalog, delivered, notHintVars>>

\* ReadAssetHints, the loop over the elements: JsonLoad and callback(packInfo)
ReadElement ==
    /\ hpc = "members"
    /\ readAt[1] <= Len(hintFile.members)
    /\ hintFile.members[readAt[1]].isArray
    /\ readAt[2] <= Len(hintFile.members[readAt[1]].value)
    /\ \E loaded \in JsonLoad(stoi(hintFile.members[readAt[1]].name),
                              hintFile.members[readAt[1]].value[readAt[2]]) :
          IF loaded.crashed
              THEN hpc' = "crashed" /\ UNCHANGED <<delivered, readAt>>
              ELSE /\ delivered' = Append(delivered, loaded.info)
                   /\ readAt' = <<readAt[1], readAt[2] + 1>>
                   /\ UNCHANGED hpc
    /\ UNCHANGED <<hintCollection, hintFile, hintWritten, catalog, notHintVars>>

NextHints == WriteAssetHints \/ ReadAssetHints \/ ReadMember \/ ReadElement

\* template ConvertMapToPackIdKeyedMap, applied to the records of a map
ConvertMapToPackIdKeyedMap(records) ==
    [packId \in {r.m_packId : r \in records} |-> {r \in records : r.m_packId = packId}]

\* the subsets of S with at most n elements
RECURSIVE SubsetsUpTo(_, _)
SubsetsUpTo(S, n) ==
    IF n = 0 THEN {{}}
    ELSE LET smaller == SubsetsUpTo(S, n - 1)
         IN  smaller \cup {T \cup {x} : T \in smaller, x \in S}

HintRecords ==
    {AssetPackInfo(a, path, k) : a \in MapIds, path \in Paths, k \in HintPackIds}

\* a catalog pairs some asset ids with some paths
Catalogs ==
    {[idByPath |-> [path \in Paths |->
                      IF \E a \in DOMAIN m : m[a] = path
                          THEN CHOOSE a \in DOMAIN m : m[a] = path ELSE InvalidAssetId],
      pathById |-> [a \in MapIds |-> IF a \in DOMAIN m THEN m[a] ELSE ""]] :
        m \in UNION {{f \in [known -> Paths \ {""}] :
                         \A a, b \in known : f[a] = f[b] => a = b} :
                     known \in SUBSET (MapIds \ {InvalidAssetId})}}

\* hint files found on disk: a syntax error, a member that is no array after one
\* that is, and asset objects with every combination of members
FoundFiles ==
    {[exists |-> TRUE, parseError |-> TRUE, members |-> <<>>],
     [exists |-> TRUE, parseError |-> FALSE,
      members |-> <<[name |-> to_string(0), isArray |-> TRUE,
                     value |-> <<(AssetHintKey :> "a")>>],
                    [name |-> to_string(1), isArray |-> FALSE, value |-> <<>>]>>]}
    \cup
    {[exists |-> TRUE, parseError |-> FALSE,
      members |-> <<[name |-> to_string(10 + MaxPackId), isArray |-> TRUE,
                     value |-> <<[key \in keys |->
                                    CASE key = GuidKey -> GuidToString(Guid(1))
                                      [] key = SubIdKey -> SubId(1)
                                      [] OTHER -> "b"]>>]>>] :
        keys \in SUBSET {GuidKey, SubIdKey, AssetHintKey}}

\* the collections handed to WriteAssetHints: the groups of some records and at
\* most one group that is empty
InitHints ==
    /\ MapIdle /\ WalkIdle /\ MergeIdle /\ LogIdle /\ PathIdle /\ PlatIdle /\ BatchIdle /\ SeedIdle
    /\ \E records \in SubsetsUpTo(HintRecords, MaxRecords),
          emptyPacks \in SubsetsUpTo(HintPackIds, 1),
          cat \in Catalogs, file \in {NoFile} \cup FoundFiles :
        /\ hintCollection = ConvertMapToPackIdKeyedMap(records)
                                @@ [packId \in emptyPacks |-> {}]
        /\ hintFile = file
        /\ catalog = cat
    /\ hintWritten = FALSE
    /\ delivered = <<>>
    /\ readAt = <<1, 1>>
    /\ hpc = "write"

SpecHints == InitHints /\ [][NextHints]_vars

----------------------------------------------------------------------------
(* ApplicationManager::MergeArchiveInfo *)

MaxArchiveEntries == 2  \* entries of an enumerated archive listing
MaxDestEntries == 2     \* records of an enumerated destination map
MaxMerges == 2          \* MergeArchiveInfo calls of a behaviour

\* AssetBundleManifest::s_manifestFileName, AssetBundleComponent::DeltaCatalogName
s_manifestFileName == "manifest.xml"
DeltaCatalogName == "DeltaCatalog.xml"

\* the paths of the enumerated archive listings, in the order of std::map<string>
SortedArchivePaths == <<DeltaCatalogName, "a", "a_p", "b", s_manifestFileName>>
ArchivePaths == {SortedArchivePaths[i] : i \in DOMAIN SortedArchivePaths}
DestPaths == {"a", "a_p", "b"}
BundlePaths == {"p", "q"}

\* ZipDir::FileEntry: header, data and end offsets of two archived files
FileEntries ==
    {[nFileHeaderOffset |-> 0, nFileDataOffset |-> 2, nEOFOffset |-> 3],
     [nFileHeaderOffset |-> 3, nFileDataOffset |-> 4, nEOFOffset |-> 7]}

\* the record ListFilesInArchiveAndRename makes of one file of a bundle
ArchiveEntry(assetRelativePath, bpakFileName, fileEntry) ==
    [AssetPackInfo(InvalidAssetId, assetRelativePath, 0) EXCEPT
        !.m_size = fileEntry.nEOFOffset - fileEntry.nFileDataOffset,
        !.m_offset = fileEntry.nFileDataOffset,
        !.m_bundlePath = bpakFileName,
        !.m_headerOffset = fileEntry.nFileHeaderOffset,
        !.m_headerSize = fileEntry.nFileDataOffset - fileEntry.nFileHeaderOffset]

\* the key MergeArchiveInfo files a header, manifest or delta-catalog record under
SyntheticPath(first, bundlePath) == first \o "_" \o bundlePath

\* destInfoMap[info.first].m_offset = info.second.m_offset: the offset of the
\* listing replaces the one of the record
AssignedOffsetMutant(old, new) == old + new
AssignedOffset(old, new) == new

\* the body of the loop of MergeArchiveInfo for one entry <<first, second>>
MergeEntry(dest, first, second) ==
    IF first \in DOMAIN dest
        THEN LET updated == [dest EXCEPT ![first].m_offset =
                                             AssignedOffset(@, second.m_offset),
                                         ![first].m_size = second.m_size,
                                         ![first].m_bundlePath = second.m_bundlePath]
                 header == [second EXCEPT
                               !.m_packId = 0,
                               !.m_offset = second.m_headerOffset,
                               !.m_size = second.m_headerSize,
                               !.m_assetRelativePath =
                                   SyntheticPath(first, second.m_bundlePath)]
             IN  MapPut(updated, header.m_assetRelativePath, header)
    ELSE IF first = s_manifestFileName \/ first = DeltaCatalogName
        THEN LET renamed == [second EXCEPT
                                !.m_assetRelativePath =
                                    SyntheticPath(first, second.m_bundlePath)]
             IN  MapPut(dest, renamed.m_assetRelativePath, renamed)
    ELSE dest

\* the loop over the listing, in key order
RECURSIVE MergeFrom(_, _, _)
MergeFrom(i, archive, dest) ==
    IF i > Len(SortedArchivePaths) THEN dest
    ELSE LET first == SortedArchivePaths[i]
         IN  MergeFrom(i + 1, archive,
                       IF first \in DOMAIN archive
                           THEN MergeEntry(dest, first, archive[first]) ELSE dest)

MergeArchiveInfo ==
    /\ merges < MaxMerges
    /\ destInfoMap' = MergeFrom(1, archiveInfoMap, destInfoMap)
    /\ merges' = merges + 1
    /\ UNCHANGED <<archiveInfoMap, destInfoMap0, notMergeVars>>

NextMerge == MergeArchiveInfo

\* archive listings of one or more bundles, keyed by path
ArchiveListings ==
    UNION {[keys -> BundlePaths \X FileEntries] :
              keys \in {K \in SUBSET ArchivePaths : Cardinality(K) <= MaxArchiveEntries}}

\* destination maps as the path-keyed AddAssetPackInfoToMap builds them from
\* the records of a hint file, with the lowest and the highest pack id
DestMaps ==
    UNION {[keys -> MapIds \X {0, MaxPackId}] :
              keys \in {K \in SUBSET DestPaths : Cardinality(K) <= MaxDestEntries}}

InitMerge ==
    /\ MapIdle /\ WalkIdle /\ HintIdle /\ LogIdle /\ PathIdle /\ PlatIdle /\ BatchIdle /\ SeedIdle
    /\ \E listing \in ArchiveListings, records \in DestMaps :
        /\ archiveInfoMap = [path \in DOMAIN listing |->
                                ArchiveEntry(path, listing[path][1], listing[path][2])]
        /\ destInfoMap = [path \in DOMAIN records |->
                             AssetPackInfo(records[path][1], path, records[path][2])]
    /\ destInfoMap0 = destInfoMap
    /\ merges = 0

SpecMerge == InitMerge /\ [][NextMerge]_vars

----------------------------------------------------------------------------
(* WriteProfilingLogs *)

LogPaths == {"a", "b"}

\* the lines of a log: a formatted record, "**********", "||||||||||  1000", or
\* the part of a line a short write got through
ReadLine(bundlePath, offset, size) ==
    [kind |-> "i-read", bundlePath |-> bundlePath, offset |-> offset, size |-> size]
SeparatorLine == [kind |-> "**********", bundlePath |-> "", offset |-> 0, size |-> 0]
MarkerLine == [kind |-> "||||||||||  1000", bundlePath |-> "", offset |-> 0, size |-> 0]
PartialLine == [kind |-> "partial", bundlePath |-> "", offset |-> 0, size |-> 0]
OldLine == [kind |-> "old", bundlePath |-> "", offset |-> 0, size |-> 0]

EmptyInputMutant(infoMap_, archive) == infoMap_ = EmptyMap
\* infoMap.empty() || archiveInfoMap.empty()
EmptyInput(infoMap_, archive) == infoMap_ = EmptyMap \/ archive = EmptyMap

GroupTrailerMutant(first) == <<SeparatorLine>>
\* lineStr after the inner loop: the separator, for pack 0 with the marker
GroupTrailer(first) ==
    <<SeparatorLine>> \o (IF first = 0 THEN <<MarkerLine>> ELSE <<>>)

IsLastGroupMutant(ctr, infoMap_) == FALSE
\* uCtr == infoMap.size()
IsLastGroup(ctr, infoMap_) == ctr = Cardinality(DOMAIN infoMap_)

\* the error strings of the failures WriteProfilingLogs returns
EmptyMapError == "empty map or list"
OpenError == "Could not write to file"
WriteError == "Failed to write the profiling logs"

\* what a write of fewer than lineStr.size() bytes leaves in the file: some of
\* the lines of lineStr, but not all, then nothing or a part of the next line
ShortWrites(lineStr) ==
    {SubSeq(lineStr, 1, k) \o fragment :
        k \in 0..(Len(lineStr) - 1), fragment \in {<<>>, <<PartialLine>>}}

\* stream.Write(lineStr.size(), lineStr.c_str()) for the group of pack first:
\* everything is written, or fewer bytes are and the writer returns a failure
StreamWrite(lineStr, first, IfWritten) ==
    \/ /\ logFile' = [logFile EXCEPT !.lines = @ \o lineStr]
       /\ writtenFor' = writtenFor \o [i \in DOMAIN lineStr |-> first]
       /\ UNCHANGED logError
       /\ IfWritten
    \/ /\ \E written \in ShortWrites(lineStr) :
             /\ logFile' = [logFile EXCEPT !.lines = @ \o written]
             /\ writtenFor' = writtenFor \o [i \in DOMAIN written |-> first]
       /\ lpc' = "failure"
       /\ logError' = WriteError
       /\ UNCHANGED <<groupsLeft, infosLeft, uCtr>>

\* the head of the outer loop: the next group, or the return after the last
EnterGroup(groups) ==
    IF groups = <<>>
        THEN /\ lpc' = "success"
             /\ groupsLeft' = <<>>
             /\ UNCHANGED <<infosLeft, uCtr>>
        ELSE /\ lpc' = "records"
             /\ groupsLeft' = groups
             /\ infosLeft' = logInfoMap[Head(groups)]
             /\ uCtr' = uCtr + 1

\* WriteProfilingLogs up to the outer loop: the check of the maps and the
\* opening of the stream, which truncates the file
WriteProfilingLogs ==
    /\ lpc = "call"
    /\ IF EmptyInput(logInfoMap, logArchiveInfoMap)
          THEN /\ lpc' = "failure"
               /\ logError' = EmptyMapError
               /\ UNCHANGED <<logFile, openAttempted, groupsLeft, infosLeft, uCtr>>
          ELSE /\ openAttempted' = TRUE
               /\ \/ /\ lpc' = "failure"
                     /\ logError' = OpenError
                     /\ UNCHANGED <<logFile, groupsLeft, infosLeft, uCtr>>
                  \/ /\ logFile' = [exists |-> TRUE, lines |-> <<>>]
                     /\ UNCHANGED logError
                     /\ EnterGroup(Ascending(DOMAIN logInfoMap))
    /\ UNCHANGED <<logInfoMap, logArchiveInfoMap, logFile0, writtenFor, notLogVars>>

\* the body of the inner loop for one record of the group
WriteInfo ==
    /\ lpc = "records"
    /\ \E info \in infosLeft :
          LET path == info.m_assetRelativePath
          IN  IF path \notin DOMAIN logArchiveInfoMap
                  THEN /\ infosLeft' = infosLeft \ {info}
                       /\ UNCHANGED <<logFile, writtenFor, logError, groupsLeft, uCtr, lpc>>
                  ELSE StreamWrite(<<ReadLine(logArchiveInfoMap[path].m_bundlePath,
                                              logArchiveInfoMap[path].m_offset,
                                              logArchiveInfoMap[path].m_size)>>,
                                   Head(groupsLeft),
                                   /\ infosLeft' = infosLeft \ {info}
                                   /\ UNCHANGED <<groupsLeft, uCtr, lpc>>)
    /\ UNCHANGED <<logInfoMap, logArchiveInfoMap, logFile0, openAttempted, notLogVars>>

\* the end of the body of the outer loop: the separator of the group
WriteSeparator ==
    /\ lpc = "records"
    /\ infosLeft = {}
    /\ LET first == Head(groupsLeft)
           lineStr == IF IsLastGroup(uCtr, logInfoMap) THEN <<>> ELSE GroupTrailer(first)
       IN  IF lineStr # <<>>
               THEN StreamWrite(lineStr, first, EnterGroup(Tail(groupsLeft)))
               ELSE /\ EnterGroup(Tail(groupsLeft))
                    /\ UNCHANGED <<logFile, writtenFor, logError>>
    /\ UNCHANGED <<logInfoMap, logArchiveInfoMap, logFile0, openAttempted, notLogVars>>

NextLog == WriteProfilingLogs \/ WriteInfo \/ WriteSeparator

\* pack-id-keyed maps with groups of records of LogPaths, empty groups included
LogInfoMaps ==
    UNION {[packs -> SUBSET LogPaths] : packs \in SUBSET PackIds}

\* path-keyed maps of archived files of LogPaths
LogArchiveInfoMaps ==
    UNION {[keys -> FileEntries] : keys \in SUBSET LogPaths}

InitLog ==
    /\ MapIdle /\ WalkIdle /\ HintIdle /\ MergeIdle /\ PathIdle /\ PlatIdle /\ BatchIdle /\ SeedIdle
    /\ \E groups \in LogInfoMaps, listing \in LogArchiveInfoMaps,
          file \in {NoLog, [exists |-> TRUE, lines |-> <<OldLine>>]} :
        /\ logInfoMap = [first \in DOMAIN groups |->
                            {AssetPackInfo(InvalidAssetId, path, first) : path \in groups[first]}]
        /\ logArchiveInfoMap = [path \in DOMAIN listing |->
                                   ArchiveEntry(path, "p", listing[path])]
        /\ logFile = file
    /\ logFile0 = logFile
    /\ writtenFor = <<>>
    /\ openAttempted = FALSE
    /\ logError = ""
    /\ groupsLeft = <<>>
    /\ infosLeft = {}
    /\ uCtr = 0
    /\ lpc = "call"

SpecLog == InitLog /\ [][NextLog]_vars

----------------------------------------------------------------------------
(* Path-keyed map: utils.cpp AddAssetPackInfoToMap(PathPackInfoMap&, ...) *)

\* the records handed to the path-keyed insert: records of a hint file, with no
\* coordinates, and records of an archive listing
PathRecords ==
    {AssetPackInfo(a, path, k) : a \in MapIds, path \in Paths \ {""}, k \in PackIds}
    \cup {ArchiveEntry(path, bundlePath, fileEntry) :
             path \in Paths \ {""}, bundlePath \in BundlePaths, fileEntry \in FileEntries}

SkipAddMutant(m, packInfo) ==
    LowerPack(m, packInfo.m_assetRelativePath, packInfo.m_packId)
\* an existing key: "skip the add if found"
SkipAdd(m, packInfo) == m

\* bool AddAssetPackInfoToMap(PathPackInfoMap&, const AssetPackInfo&)
AddAssetPackInfoToMapPath(packInfo) ==
    /\ IF packInfo.m_assetRelativePath \in DOMAIN pathInfoMap
          THEN /\ pathInfoMap' = SkipAdd(pathInfoMap, packInfo)
               /\ pathRet' = TRUE
          ELSE /\ pathInfoMap' = MapPut(pathInfoMap, packInfo.m_assetRelativePath, packInfo)
               /\ pathRet' = FALSE
    /\ pathPassed' = [pathPassed EXCEPT ![packInfo.m_assetRelativePath] =
                                            @ \cup {packInfo.m_packId}]
    /\ UNCHANGED notPathVars

NextPaths == \E packInfo \in PathRecords : AddAssetPackInfoToMapPath(packInfo)

SpecPaths == Init /\ [][NextPaths]_vars

----------------------------------------------------------------------------
(* ApplicationManager::RunPlatformSpecificAssetListCommands: one worker of
   AZ::parallel_for_each per platform *)

NumPlatforms == 2       \* platform ids are 1..NumPlatforms
NumSeedGroups == 2      \* keys of params.m_seedList are 1..NumSeedGroups

Platforms == 1..NumPlatforms
SeedPackIds == 1..NumSeedGroups
SeedPaths == Paths \ {""}

\* the objects the workers touch: those of the command (owner 0, captured by
\* reference or through this) and the locals of the lambda of one platform
Shared(name) == [name |-> name, owner |-> 0]
Local(name, platformId) == [name |-> name, owner |-> platformId]
Objects ==
    {Shared(name) : name \in {"m_assetSeedManager", "params", "exclusionList"}}
    \cup {Local(name, platformId) :
             name \in {"assetCatalog", "assetMap", "allAssetMap", "pakAssetHintFile"},
             platformId \in Platforms}

\* the history of a step of worker platformId that reads rs and writes ws
Touch(platformId, rs, ws) ==
    /\ readers' = [o \in Objects |-> IF o \in rs THEN readers[o] \cup {platformId}
                                                ELSE readers[o]]
    /\ writers' = [o \in Objects |-> IF o \in ws THEN writers[o] \cup {platformId}
                                                ELSE writers[o]]

\* a call of the seed manager overlaps a call of another worker, one of the two
\* writing: the seed manager has no lock, the accesses are a data race.  A racing
\* write takes effect, is lost or kills the process; a racing read sees some of
\* the seeds of the platform.
Racing(platformId, access) ==
    \E other \in Platforms \ {platformId} :
        /\ inCall[other] # "none"
        /\ access = "write" \/ inCall[other] = "write"

\* the process has died in a racing access
Crash == ppc' = [platformId \in Platforms |-> "crashed"]

\* a worker enters AddSeedAsset, RemoveSeedAsset or GetDependencyList
EnterSeedManager(platformId) ==
    /\ ppc[platformId] \in {"add", "deps", "remove"}
    /\ ppc' = [ppc EXCEPT ![platformId] =
                  CASE @ = "add" -> "adding" [] @ = "deps" -> "listing" [] OTHER -> "removing"]
    /\ inCall' = [inCall EXCEPT ![platformId] =
                     IF ppc[platformId] = "deps" THEN "read" ELSE "write"]
    /\ UNCHANGED <<m_seedList, m_levelsPackIdMapping, seedsToGo, m_assetSeedManager, seedIter,
                   assetMap, allAssetMap, pakAssetHintFiles, readers, writers, notPlatVars>>

\* AddOrRemoveSeeds(platformId, seedIter->second, bAddSeed), one pass of its
\* loop: AddSeedAsset or RemoveSeedAsset on m_assetSeedManager for one seed of
\* the group, the unordered_set of the group in some order
AddOrRemoveSeeds(platformId, bAddSeed) ==
    /\ ppc[platformId] = (IF bAddSeed THEN "adding" ELSE "removing")
    /\ inCall' = [inCall EXCEPT ![platformId] = "none"]
    /\ \E seed \in seedsToGo[platformId] :
          LET updated == IF bAddSeed THEN m_assetSeedManager \cup {<<seed, platformId>>}
                                     ELSE m_assetSeedManager \ {<<seed, platformId>>}
              after == CASE seedsToGo[platformId] # {seed} ->
                                (IF bAddSeed THEN "add" ELSE "remove")
                         [] bAddSeed -> "deps"
                         [] OTHER -> "merge"
              Returned == /\ ppc' = [ppc EXCEPT ![platformId] = after]
                          /\ seedsToGo' = [seedsToGo EXCEPT ![platformId] = @ \ {seed}]
          IN  IF Racing(platformId, "write")
                  THEN \/ /\ m_assetSeedManager' \in {updated, m_assetSeedManager}
                          /\ Returned
                       \/ Crash /\ UNCHANGED <<m_assetSeedManager, seedsToGo>>
                  ELSE /\ m_assetSeedManager' = updated
                       /\ Returned
    /\ Touch(platformId, {Shared("params")}, {Shared("m_assetSeedManager")})
    /\ UNCHANGED <<m_seedList, m_levelsPackIdMapping, seedIter, assetMap, allAssetMap,
                   pakAssetHintFiles, notPlatVars>>

\* m_assetSeedManager->GetDependencyList(platformIndices[0], ...) and the loop of
\* AddAssetPackInfoToMap(assetMap, ..., seedIter->first) over the list; the
\* assets of the catalogs of this part have no product dependencies, so the list
\* holds the seeds of the platform
GetDependencyList(platformId) ==
    /\ ppc[platformId] = "listing"
    /\ inCall' = [inCall EXCEPT ![platformId] = "none"]
    /\ \E list \in LET seeds == {path \in SeedPaths :
                                      <<path, platformId>> \in m_assetSeedManager}
                    IN  IF Racing(platformId, "read") THEN SUBSET seeds ELSE {seeds} :
          assetMap' = [assetMap EXCEPT ![platformId] =
                          [path \in list |-> seedIter[platformId]]]
    /\ ppc' = [ppc EXCEPT ![platformId] = "cascade"]
    /\ Touch(platformId, {Shared("m_assetSeedManager"), Shared("exclusionList")},
             {Local("assetMap", platformId)})
    /\ UNCHANGED <<m_seedList, m_levelsPackIdMapping, seedsToGo, m_assetSeedManager, seedIter,
                   allAssetMap, pakAssetHintFiles, notPlatVars>>

\* the pack ids of a map from the highest down: rbegin() to rend()
RECURSIVE Descending(_)
Descending(packs) ==
    IF packs = {} THEN <<>> ELSE <<Max(packs)>> \o Descending(packs \ {Max(packs)})

\* AssetGraphWalker::CascadeValuesToMap where no asset has a product dependency:
\* for every pack id from the highest down, every asset of the pack that is a
\* key of outMap takes the pack id; SetValueToDescendants finds nothing to visit
RECURSIVE CascadeValues(_, _, _)
CascadeValues(m, packIdMap, packs) ==
    IF packs = <<>> THEN m
    ELSE CascadeValues([path \in DOMAIN m |->
                           IF path \in packIdMap[Head(packs)] THEN Head(packs) ELSE m[path]],
                       packIdMap, Tail(packs))

\* debugInfo.CascadeValuesToMap(assetMap, params.m_levelsPackIdMapping, platformId,
\* exclusionList, wildcardPatternExclusionList): relabels the records of assetMap;
\* then AddOrRemoveSeeds(platformId, seedIter->second, false) is entered
CascadeStep(platformId) ==
    /\ ppc[platformId] = "cascade"
    /\ assetMap' = [assetMap EXCEPT ![platformId] =
                       CascadeValues(@, m_levelsPackIdMapping,
                                     Descending(DOMAIN m_levelsPackIdMapping))]
    /\ ppc' = [ppc EXCEPT ![platformId] = "remove"]
    /\ seedsToGo' = [seedsToGo EXCEPT ![platformId] = m_seedList[seedIter[platformId]]]
    /\ Touch(platformId,
             {Shared("params"), Shared("exclusionList"), Local("assetCatalog", platformId)},
             {Local("assetMap", platformId)})
    /\ UNCHANGED <<m_seedList, m_levelsPackIdMapping, m_assetSeedManager, inCall, seedIter,
                   allAssetMap, pakAssetHintFiles, notPlatVars>>

\* allAssetMap.insert(assetMap.begin(), assetMap.end()) keeps the records of the
\* keys it has; ++seedIter goes to the next lower pack id, whose seeds are added
InsertAll(platformId) ==
    /\ ppc[platformId] = "merge"
    /\ allAssetMap' = [allAssetMap EXCEPT ![platformId] = @ @@ assetMap[platformId]]
    /\ IF seedIter[platformId] > 1
          THEN /\ seedIter' = [seedIter EXCEPT ![platformId] = @ - 1]
               /\ seedsToGo' = [seedsToGo EXCEPT ![platformId] =
                                   m_seedList[seedIter[platformId] - 1]]
               /\ ppc' = [ppc EXCEPT ![platformId] = "add"]
          ELSE /\ ppc' = [ppc EXCEPT ![platformId] = "write"]
               /\ UNCHANGED <<seedIter, seedsToGo>>
    /\ Touch(platformId, {Local("assetMap", platformId)}, {Local("allAssetMap", platformId)})
    /\ UNCHANGED <<m_seedList, m_levelsPackIdMapping, m_assetSeedManager, inCall, assetMap,
                   pakAssetHintFiles, notPlatVars>>

\* ConvertMapToPackIdKeyedMap and WriteAssetHints to the file named by the
\* platform: nothing for an empty map; a failed WriteJsonFile is logged and
\* leaves the file as it was
WritePlatformHints(platformId) ==
    /\ ppc[platformId] = "write"
    /\ IF allAssetMap[platformId] = EmptyMap
          THEN UNCHANGED pakAssetHintFiles
          ELSE \/ pakAssetHintFiles' = [pakAssetHintFiles EXCEPT ![platformId] =
                                           allAssetMap[platformId]]
               \/ UNCHANGED pakAssetHintFiles
    /\ ppc' = [ppc EXCEPT ![platformId] = "done"]
    /\ Touch(platformId, {Shared("params"), Local("allAssetMap", platformId)},
             {Local("pakAssetHintFile", platformId)})
    /\ UNCHANGED <<m_seedList, m_levelsPackIdMapping, seedsToGo, m_assetSeedManager, inCall,
                   seedIter, assetMap, allAssetMap, notPlatVars>>

NextPlatforms ==
    \E platformId \in Platforms :
        \/ EnterSeedManager(platformId)
        \/ AddOrRemoveSeeds(platformId, TRUE)
        \/ GetDependencyList(platformId)
        \/ CascadeStep(platformId)
        \/ AddOrRemoveSeeds(platformId, FALSE)
        \/ InsertAll(platformId)
        \/ WritePlatformHints(platformId)

\* the pack ids of the levels of a command: below, among and above the pack ids
\* of the seed groups
LevelPackIds == {0, 1, NumSeedGroups + 3}

\* params.m_levelsPackIdMapping: no level, or one asset under the pack id of its
\* level
LevelsPackIdMappings ==
    {EmptyMap} \cup {(packId :> {"a"}) : packId \in LevelPackIds}

\* the seed groups of the command line: some seed paths for every pack id
InitPlatforms ==
    /\ MapIdle /\ WalkIdle /\ HintIdle /\ MergeIdle /\ LogIdle /\ PathIdle /\ BatchIdle /\ SeedIdle
    /\ m_seedList \in [SeedPackIds -> SUBSET SeedPaths \ {{}}]
    /\ m_levelsPackIdMapping \in LevelsPackIdMappings
    /\ seedsToGo = [platformId \in Platforms |-> m_seedList[NumSeedGroups]]
    /\ m_assetSeedManager = {}
    /\ inCall = [platformId \in Platforms |-> "none"]
    /\ ppc = [platformId \in Platforms |-> "add"]
    /\ seedIter = [platformId \in Platforms |-> NumSeedGroups]
    /\ assetMap = [platformId \in Platforms |-> EmptyMap]
    /\ allAssetMap = [platformId \in Platforms |-> EmptyMap]
    /\ pakAssetHintFiles = [platformId \in Platforms |-> EmptyMap]
    /\ readers = [o \in Objects |-> {}]
    /\ writers = [o \in Objects |-> {}]

SpecPlatforms == InitPlatforms /\ [][NextPlatforms]_vars

----------------------------------------------------------------------------
(* ApplicationManager::RunBundlesCommands / RunMergeAssetHintsCommands: the
   workers of AZ::parallel_for_each and the failure count they share *)

NumWorkers == 3         \* workers of the batch are 1..NumWorkers
NumHintsFiles == 1      \* entries of params.m_assetHintsFiles

Workers == 1..NumWorkers

Stage(name, fallible) == [name |-> name, fallible |-> fallible]

\* the lambda of RunBundlesCommands, call by call; the outcome of ReadAssetHints
\* is dropped, ListFilesInArchiveAndRename returns AZ::Success() on every path,
\* WriteAssetHints returns none
BundlesStages ==
    <<Stage("ApplyBundleSettingsOverrides", TRUE),
      Stage("ReadAssetHints", FALSE),
      Stage("ListFilesInArchiveAndRename", FALSE),
      Stage("MergeArchiveInfo", FALSE),
      Stage("WriteAssetHints", FALSE)>>

\* the body of the loop over params.m_assetHintsFiles, once per file
RECURSIVE HintsFilesStages(_)
HintsFilesStages(n) ==
    IF n = 0 THEN <<>>
    ELSE <<Stage("EndsWith(pakAssetHintsFile)", TRUE),
           Stage("Exists(pakAssetHintsFile)", TRUE),
           Stage("ReadAssetHints", FALSE)>> \o HintsFilesStages(n - 1)

\* the lambda of RunMergeAssetHintsCommands
MergeAssetHintsStages ==
    <<Stage("EndsWith(sampLogAbsolutePath)", TRUE),
      Stage("Exists(sampLogAbsolutePath)", TRUE)>>
    \o HintsFilesStages(NumHintsFiles)
    \o <<Stage("WriteSamplingLogs", TRUE)>>

Stages == IF command = "bundles" THEN BundlesStages ELSE MergeAssetHintsStages

\* failureCount.fetch_add(1, memory_order_relaxed) on an atomic_uint: one
\* indivisible step; the count stays at or below the number of workers, far
\* from 2^32
FetchAddMutant(count) == 1
FetchAdd(count) == count + 1

Finished(worker) == bpc[worker].at \in {"returned", "completed"}

\* a call of the lambda succeeds: the worker goes on, or ends after the last
RunStage(worker) ==
    /\ bpc[worker].at = "run"
    /\ bpc' = [bpc EXCEPT ![worker] =
                  IF @.stage = Len(Stages) THEN [@ EXCEPT !.at = "completed"]
                                           ELSE [@ EXCEPT !.stage = @ + 1]]
    /\ UNCHANGED <<command, failureCount, tookErrorPath, result, notBatchVars>>

\* a call of the lambda fails: AZ_Error
FailStage(worker) ==
    /\ bpc[worker].at = "run"
    /\ Stages[bpc[worker].stage].fallible
    /\ bpc' = [bpc EXCEPT ![worker].at = "error"]
    /\ tookErrorPath' = tookErrorPath \cup {worker}
    /\ UNCHANGED <<command, failureCount, result, notBatchVars>>

\* ListFilesInArchiveAndRename: Rename, Exists, OpenArchive or ListAllFiles
\* fails for an archive; the callback of FindFiles returns false, which ends the
\* search, and the function returns AZ::Success()
ArchiveFailure(worker) ==
    /\ bpc[worker].at = "run"
    /\ Stages[bpc[worker].stage].name = "ListFilesInArchiveAndRename"
    /\ bpc' = [bpc EXCEPT ![worker] = [@ EXCEPT !.stage = @ + 1, !.archiveFailed = TRUE]]
    /\ UNCHANGED <<command, failureCount, tookErrorPath, result, notBatchVars>>

\* failureCount.fetch_add(1, ...); return;
CountFailure(worker) ==
    /\ bpc[worker].at = "error"
    /\ failureCount' = FetchAdd(failureCount)
    /\ bpc' = [bpc EXCEPT ![worker].at = "returned"]
    /\ UNCHANGED <<command, tookErrorPath, result, notBatchVars>>

WorkerStep(worker) ==
    RunStage(worker) \/ FailStage(worker) \/ ArchiveFailure(worker) \/ CountFailure(worker)

\* parallel_for_each has joined its workers: return failureCount == 0;
ReturnFromCommand ==
    /\ result = "none"
    /\ \A worker \in Workers : Finished(worker)
    /\ result' = IF failureCount = 0 THEN "true" ELSE "false"
    /\ UNCHANGED <<command, bpc, failureCount, tookErrorPath, notBatchVars>>

NextBatch ==
    \/ \E worker \in Workers : RunStage(worker)
    \/ \E worker \in Workers : FailStage(worker)
    \/ \E worker \in Workers : ArchiveFailure(worker)
    \/ \E worker \in Workers : CountFailure(worker)
    \/ ReturnFromCommand

InitBatch ==
    /\ MapIdle /\ WalkIdle /\ HintIdle /\ MergeIdle /\ LogIdle /\ PathIdle /\ PlatIdle /\ SeedIdle
    /\ command \in {"bundles", "mergeAssetHints"}
    /\ bpc = [worker \in Workers |-> [stage |-> 1, at |-> "run", archiveFailed |-> FALSE]]
    /\ failureCount = 0
    /\ tookErrorPath = {}
    /\ result = "none"

SpecBatch == InitBatch /\ [][NextBatch]_vars

----------------------------------------------------------------------------
(* ApplicationManager::RunSeedsCommands *)

MaxSeedArgs == 2        \* --addSeed arguments of a command line

\* extern const AZ::u32 DefaultPackIdValue, the pack id that stands for "no pack
\* id given".  utils.h declares it, its definition is not among the sources; it
\* is taken as the largest value the checker has, for the largest u32: a pack
\* id like any other under !=, < and to_string, above the pack ids that are given
DefaultPackIdValue == 2147483647

\* bool AddAssetPackInfoToMap(AssetPackInfoMap&, const AssetPackInfo&), as the
\* map it leaves
AddedToMap(m, packInfo) ==
    IF packInfo.m_assetId \in DOMAIN m
        THEN LowerPack(m, packInfo.m_assetId, packInfo.m_packId)
        ELSE MapPut(m, packInfo.m_assetId, packInfo)

\* the loop "Add Seeds": GetAssetIdByPath and AddAssetPackInfoToMap for every seed
RECURSIVE AddSeedsToMap(_, _)
AddSeedsToMap(m, seeds) ==
    IF seeds = <<>> THEN m
    ELSE LET packInfo == [Head(seeds) EXCEPT
                             !.m_assetId = GetAssetIdByPath(Head(seeds).m_assetRelativePath)]
         IN  AddSeedsToMap(AddedToMap(m, packInfo), Tail(seeds))

\* the loop "Remove Seeds": GetAssetIdByPath and RemoveAssetPackInfoFromMap
RECURSIVE RemoveSeedsFromMap(_, _)
RemoveSeedsFromMap(m, seeds) ==
    IF seeds = <<>> THEN m
    ELSE RemoveSeedsFromMap(MapErase(m, GetAssetIdByPath(Head(seeds))), Tail(seeds))

\* the orders in which the loops over m_addSeedList come to the seeds: the
\* groups by ascending pack id, the unordered_set of a group in some order
RECURSIVE SeedOrders(_, _)
SeedOrders(addSeedList, packs) ==
    IF packs = <<>> THEN {<<>>}
    ELSE {q \o rest : q \in Orders(addSeedList[Head(packs)]),
                      rest \in SeedOrders(addSeedList, Tail(packs))}

\* the asset objects ReadAssetHints comes to: those of the members before the
\* first member that is no array, each with the pack id of its member
RECURSIVE ArrayElements(_)
ArrayElements(members) ==
    IF members = <<>> \/ ~Head(members).isArray THEN <<>>
    ELSE [i \in DOMAIN Head(members).value |->
             [packId |-> stoi(Head(members).name), object |-> Head(members).value[i]]]
         \o ArrayElements(Tail(members))

\* the callback RunSeedsCommands hands to ReadAssetHints
SeedsCallback(m, packInfo) ==
    AddedToMap(m, IF seedsParams.m_packId # DefaultPackIdValue
                      THEN [packInfo EXCEPT !.m_packId = seedsParams.m_packId]
                      ELSE packInfo)

\* ReadAssetHints with the callback of the command: the maps the callbacks can
\* leave, or a crash in JsonLoad
RECURSIVE ReadSeedHints(_, _)
ReadSeedHints(elements, m) ==
    IF elements = <<>> THEN {[crashed |-> FALSE, map |-> m]}
    ELSE UNION {IF loaded.crashed
                    THEN {[crashed |-> TRUE, map |-> m]}
                    ELSE ReadSeedHints(Tail(elements), SeedsCallback(m, loaded.info)) :
                loaded \in JsonLoad(Head(elements).packId, Head(elements).object)}

\* if (SeedsOperationRequiresCatalog(params)) InitAssetCatalog: a catalog that
\* cannot be loaded ends the command with false
SeedsInitAssetCatalog ==
    /\ spc = "catalog"
    /\ spc' = IF seedsParams.m_addSeedList # EmptyMap /\ ~seedsParams.catalogLoads
                  THEN "false" ELSE "read"
    /\ UNCHANGED <<seedsParams, seedAllAssetMap, hintVars, notSeedVars>>

\* if (fileExists) ReadAssetHints(seedAssetHintFile, ..., callback); the value
\* ReadAssetHints returns is dropped
SeedsReadAssetHints ==
    /\ spc = "read"
    /\ \E out \in IF hintFile.exists /\ ~hintFile.parseError
                      THEN ReadSeedHints(ArrayElements(hintFile.members), EmptyMap)
                      ELSE {[crashed |-> FALSE, map |-> EmptyMap]} :
          /\ seedAllAssetMap' = out.map
          /\ spc' = IF out.crashed THEN "crashed" ELSE "add"
    /\ UNCHANGED <<seedsParams, hintVars, notSeedVars>>

\* for (const auto& seed : params.m_addSeedList) for (auto packInfo : seed.second)
AddSeeds ==
    /\ spc = "add"
    /\ \E seeds \in SeedOrders(seedsParams.m_addSeedList,
                                Ascending(DOMAIN seedsParams.m_addSeedList)) :
          seedAllAssetMap' = AddSeedsToMap(seedAllAssetMap, seeds)
    /\ spc' = "remove"
    /\ UNCHANGED <<seedsParams, hintVars, notSeedVars>>

\* for (const auto& seed : params.m_removeSeedList)
RemoveSeeds ==
    /\ spc = "remove"
    /\ seedAllAssetMap' = RemoveSeedsFromMap(seedAllAssetMap, seedsParams.m_removeSeedList)
    /\ spc' = "save"
    /\ UNCHANGED <<seedsParams, hintVars, notSeedVars>>

\* ConvertMapToPackIdKeyedMap(allAssetMap, idPackInfoListMap),
\* WriteAssetHints(idPackInfoListMap, seedAssetHintFile) and return true
SaveSeedHints ==
    /\ spc = "save"
    /\ hintCollection' = ConvertMapToPackIdKeyedMap({seedAllAssetMap[assetId] :
                                                       assetId \in DOMAIN seedAllAssetMap})
    /\ IF hintCollection' = EmptyMap
          THEN UNCHANGED <<hintFile, hintWritten>>
          ELSE \/ \E d \in Documents(hintCollection', Ascending(DOMAIN hintCollection')) :
                    /\ hintFile' = [exists |-> TRUE, parseError |-> FALSE, members |-> d]
                    /\ hintWritten' = TRUE
               \/ UNCHANGED <<hintFile, hintWritten>>
    /\ spc' = "true"
    /\ UNCHANGED <<seedsParams, seedAllAssetMap, catalog, delivered, readAt, hpc,
                   notSeedVars>>

NextSeeds ==
    \/ SeedsInitAssetCatalog
    \/ SeedsReadAssetHints
    \/ AddSeeds
    \/ RemoveSeeds
    \/ SaveSeedHints

\* the --addSeed arguments as GetAddSeedArgList parses them: the path in its
\* trimmed, lower-cased and normalised form, and the pack id between the markers
\* or, without markers, DefaultPackIdValue
SeedArgs == {AssetPackInfo(InvalidAssetId, path, packId) :
                path \in Paths \ {""}, packId \in HintPackIds \cup {DefaultPackIdValue}}

\* the seed hint files an earlier seeds command has saved with the catalog
SavedSeedFiles(cat) ==
    LET saved == {AssetPackInfo(cat.idByPath[r.m_assetRelativePath],
                                r.m_assetRelativePath, r.m_packId) : r \in SeedArgs}
        maps == {records \in SubsetsUpTo(saved, MaxRecords) :
                    \A r, t \in records : r.m_assetId = t.m_assetId => r = t}
    IN  {[exists |-> TRUE, parseError |-> FALSE, members |-> d] :
            d \in UNION {Documents(ConvertMapToPackIdKeyedMap(records),
                                   Ascending({r.m_packId : r \in records})) :
                             records \in maps \ {{}}}}

\* a seeds command: the parsed arguments, the catalog and the seed hint file; a
\* global pack id overrides the pack id of every --addSeed argument, and the
\* --removeSeed paths are typed in the form the --addSeed paths are stored in
InitSeeds ==
    /\ MapIdle /\ WalkIdle /\ MergeIdle /\ LogIdle /\ PathIdle /\ PlatIdle /\ BatchIdle
    /\ \E cat \in Catalogs, args \in SubsetsUpTo(SeedArgs, MaxSeedArgs),
          removed \in SUBSET (Paths \ {""}), packId \in {DefaultPackIdValue, 1},
          loads \in BOOLEAN :
        /\ catalog = cat
        /\ hintFile \in {NoFile} \cup SavedSeedFiles(cat)
        /\ \E removeSeedList \in Orders(removed) :
              seedsParams =
                  [m_packId |-> packId,
                   m_addSeedList |-> ConvertMapToPackIdKeyedMap(
                       {IF packId # DefaultPackIdValue
                            THEN [arg EXCEPT !.m_packId = packId] ELSE arg : arg \in args}),
                   m_removeSeedList |-> removeSeedList,
                   catalogLoads |-> loads]
    /\ hintCollection = EmptyMap
    /\ hintWritten = FALSE
    /\ delivered = <<>>
    /\ readAt = <<1, 1>>
    /\ hpc = "idle"
    /\ seedAllAssetMap = EmptyMap
    /\ spc = "catalog"

SpecSeeds == InitSeeds /\ [][NextSeeds]_vars

----------------------------------------------------------------------------
\* C1: after any sequence of identity-keyed inserts of one asset id, the stored
\* packId is the minimum of all pack ids passed in for that asset id.
C1_LowerPackWins ==
    \A a \in DOMAIN infoMap : infoMap[a].m_packId = Min(passed[a])

\* an asset id inserted with three different pack ids, the last insert onto the
\* existing key, and pack id 0 stored
C1_Witness ==
    \E a \in DOMAIN infoMap :
        /\ Cardinality(passed[a]) >= 3
        /\ lastRet = TRUE
        /\ infoMap[a].m_packId = 0

----------------------------------------------------------------------------
(* Reachability in the oracle's graph, computed apart from the walk *)

DependencyEdge(a, d) ==
    /\ deps[a].isSuccess
    /\ d \in deps[a].value
    /\ IsValid(d)

ReachableFrom(seed) ==
    LET step[i \in 0..NumAssets] ==
            IF i = 0 THEN {seed}
            ELSE LET prev == step[i - 1]
                 IN  prev \cup {d \in AssetIds : \E a \in prev : DependencyEdge(a, d)}
    IN  step[NumAssets]

\* the packs that have a seed, itself a key of the map, from which x is reachable
ReachingPacks(x) ==
    {p \in DOMAIN sourcePackIdMap :
        \E seed \in sourcePackIdMap[p] \cap DOMAIN outMap : x \in ReachableFrom(seed)}

NoExclusions == exclusionList = {} /\ wildcardMatch = {}

\* C2 as stated, for every cascade: every asset of the map that the seeds of one
\* or several packs reach through dependency edges has the lowest of those pack
\* ids.  An asset of the exclusion list that is reached as a dependency keeps the
\* packId it had, so this does not hold.
C2_LowestReachingPackWinsAlways ==
    wpc = "done" =>
        \A x \in DOMAIN outMap :
            ReachingPacks(x) # {} => outMap[x].m_packId = Min(ReachingPacks(x))

\* an asset of the exclusion list that seeds of two packs reach as a dependency
\* and that the cascade left as it was
C2_ExclusionWitness ==
    /\ wpc = "done"
    /\ \E x \in exclusionList \cap DOMAIN outMap :
        /\ Cardinality(ReachingPacks(x)) >= 2
        /\ \A p \in DOMAIN sourcePackIdMap : x \notin sourcePackIdMap[p]
        /\ outMap[x].m_packId = outMap0[x].m_packId
        /\ outMap[x].m_packId # Min(ReachingPacks(x))

\* C2 (amended): after a cascade with an empty exclusion list and no wildcard
\* pattern every asset of the map that the seeds of one or several packs reach has
\* the lowest of those pack ids, whatever seed map and oracle were given.
C2_LowestReachingPackWins ==
    (wpc = "done" /\ NoExclusions) =>
        \A x \in DOMAIN outMap :
            ReachingPacks(x) # {} => outMap[x].m_packId = Min(ReachingPacks(x))

\* seeds of packs 0, 1 and 2 all reach an asset that is no seed; it ends in pack 0
C2_Witness ==
    /\ wpc = "done"
    /\ NoExclusions
    /\ \E x \in DOMAIN outMap :
        /\ ReachingPacks(x) = {0, 1, 2}
        /\ \A p \in DOMAIN sourcePackIdMap : x \notin sourcePackIdMap[p]
        /\ outMap0[x].m_packId # 0
        /\ outMap[x].m_packId = 0

\* the assets of the active SetValueToDescendants calls are pairwise distinct
NoAssetTwiceOnPath ==
    \A i, j \in 1..Len(stack) : stack[i].assetId = stack[j].assetId => i = j

\* C3: the walk never recurses into an asset that is on the current path, and the
\* cascade ends for every oracle, cyclic ones included.
C3_CascadeTerminates ==
    [](NoAssetTwiceOnPath /\ wpc # "overflow") /\ <>(wpc = "done")

\* a cascade that walked a cycle A -> B -> C -> A from seed A and came to its end
C3_Witness ==
    /\ wpc = "done"
    /\ \E a, b, c \in AssetIds :
        /\ a # b /\ b # c /\ a # c
        /\ DependencyEdge(a, b) /\ DependencyEdge(b, c) /\ DependencyEdge(c, a)
        /\ \E p \in DOMAIN sourcePackIdMap : a \in sourcePackIdMap[p]
        /\ writes[a] >= 2 /\ writes[b] >= 1 /\ writes[c] >= 1

\* C4 as stated: no asset ends the cascade with a packId above the one it had
\* before the cascade.
C4_NeverAbovePrevious ==
    wpc = "done" =>
        \A x \in DOMAIN outMap : outMap[x].m_packId <= outMap0[x].m_packId

\* C4, amended: an assignment the cascade has made is never overwritten by a
\* higher pack id; an asset the cascade has not assigned keeps its packId.
C4_AssignedNeverRaised ==
    [][\A x \in DOMAIN outMap :
          /\ writes[x] > 0 => outMap'[x].m_packId <= outMap[x].m_packId
          /\ writes'[x] = 0 => outMap'[x].m_packId = outMap0[x].m_packId]_vars

\* an asset assigned by the walks of two packs keeps the lower pack id, which is
\* above the packId it had before the cascade
C4_Witness ==
    /\ wpc = "done"
    /\ \E x \in DOMAIN outMap :
        /\ Cardinality(ReachingPacks(x)) >= 2
        /\ writes[x] >= 2
        /\ outMap[x].m_packId = Min(ReachingPacks(x))
        /\ outMap[x].m_packId > outMap0[x].m_packId

----------------------------------------------------------------------------
Range(q) == {q[i] : i \in DOMAIN q}

\* assetId, relative path and packId, the fields operator== compares
Identity(r) == <<r.m_assetId, r.m_assetRelativePath, r.m_packId>>

\* the records that have a valid asset id or a path
WithIdOrPath(records) ==
    {Identity(r) : r \in {x \in records : IsValid(x.m_assetId) \/ x.m_assetRelativePath # ""}}

\* C5: once a written collection has been read back, the records delivered to
\* the callback are the records written, but for those with neither a valid
\* asset id nor a path.
C5_RoundTrip ==
    (hintWritten /\ hpc \in {"success", "failure", "crashed"}) =>
        WithIdOrPath(Range(delivered)) = WithIdOrPath(UNION Range(hintCollection))

\* C14: WriteAssetHints writes no file for an empty collection, and every
\* member of a document it writes is a non-empty array named by the decimal
\* pack id of a group that is not empty.
C14_NoEmptyMember ==
    [][hpc = "write" =>
          /\ hintCollection = EmptyMap => hintFile' = hintFile /\ ~hintWritten'
          /\ (hintWritten' \/ hintFile' # hintFile) =>
                /\ \A i \in DOMAIN hintFile'.members :
                      LET member == hintFile'.members[i]
                      IN  /\ member.isArray
                          /\ member.value # <<>>
                          /\ \E packId \in DOMAIN hintCollection :
                                /\ member.name = ToDigits(packId, 10)
                                /\ Len(member.value) = Cardinality(hintCollection[packId])
                /\ \A packId \in DOMAIN hintCollection :
                      hintCollection[packId] = {} =>
                          \A i \in DOMAIN hintFile'.members :
                              stoi(hintFile'.members[i].name) # packId]_vars

\* a document with a member has been written for a collection with an empty group
C14_Witness ==
    /\ hintWritten
    /\ hpc = "read"
    /\ hintFile.members # <<>>
    /\ \E packId \in DOMAIN hintCollection : hintCollection[packId] = {}

\* C15: when ReadAssetHints has returned a failure, the callback has been
\* invoked for no record of the file.
C15_FailedReadDeliversNothing ==
    hpc = "failure" => delivered = <<>>

----------------------------------------------------------------------------
\* C16: every object a platform worker has written has been read and written
\* by that worker only.
C16_NoSharedMutableState ==
    \A o \in DOMAIN writers :
        \A platformId \in writers[o] : readers[o] \cup writers[o] = {platformId}

\* C26: when the pipeline of a platform has run alone (no other worker has
\* started) for a command without levels, every asset of allAssetMap and of the
\* pak hint file the pipeline has written is recorded under the lowest pack id
\* of the seed groups that list it.
C26_LowestPackIdWins ==
    \A platformId \in Platforms :
        (/\ ppc[platformId] = "done"
         /\ m_levelsPackIdMapping = EmptyMap
         /\ \A other \in Platforms \ {platformId} :
                ppc[other] = "add" /\ seedIter[other] = NumSeedGroups
                    /\ seedsToGo[other] = m_seedList[NumSeedGroups]) =>
            \A packId \in SeedPackIds :
                \A path \in m_seedList[packId] :
                    /\ path \in DOMAIN allAssetMap[platformId]
                    /\ allAssetMap[platformId][path] <= packId
                    /\ path \in DOMAIN pakAssetHintFiles[platformId] =>
                           pakAssetHintFiles[platformId][path] <= packId

\* the stage of the lambda of RunBundlesCommands that lists the archives
ListFilesStage ==
    CHOOSE i \in DOMAIN BundlesStages : BundlesStages[i].name = "ListFilesInArchiveAndRename"

\* C29: a bundles worker for which the rename, the opening or the listing of an
\* archive has failed has gone no further than ListFilesInArchiveAndRename (no
\* merge, no hint-file write), is counted in failureCount once it has finished,
\* and the command does not return true.
C29_ArchiveFailureReported ==
    \A worker \in DOMAIN bpc :
        bpc[worker].archiveFailed =>
            /\ bpc[worker].stage <= ListFilesStage
            /\ Finished(worker) => failureCount >= 1
            /\ result # "true"

\* C17: when every worker has finished, failureCount is the number of workers
\* that took an error path; the failure of a worker leaves every other worker
\* able to go on; the command returns true exactly when failureCount is 0, and
\* only once every worker has finished.
C17_FailuresAccumulated ==
    /\ (\A worker \in DOMAIN bpc : Finished(worker)) =>
           failureCount = Cardinality(tookErrorPath)
    /\ \A worker \in DOMAIN bpc :
           (tookErrorPath \ {worker} # {} /\ ~Finished(worker)) => ENABLED WorkerStep(worker)
    /\ result # "none" =>
           /\ \A worker \in DOMAIN bpc : Finished(worker)
           /\ result = "true" <=> failureCount = 0

\* two workers have failed, a third has run to completion after them and the
\* command has returned false
C17_Witness ==
    /\ result = "false"
    /\ failureCount >= 2
    /\ \E worker \in DOMAIN bpc : bpc[worker].at = "completed"

\* C19: throughout the cascade the map has the keys it was entered with, and
\* every record differs from the one it was entered with in m_packId at most.
C19_OnlyPackIdRelabelled ==
    wpc # "idle" =>
        /\ DOMAIN outMap = DOMAIN outMap0
        /\ \A assetId \in DOMAIN outMap :
               [outMap[assetId] EXCEPT !.m_packId = outMap0[assetId].m_packId]
                   = outMap0[assetId]

\* the cascade has ended after relabelling an asset one of whose dependencies is
\* a valid asset id that is no key of the map
C19_Witness ==
    /\ wpc = "done"
    /\ \E assetId \in DOMAIN outMap :
           /\ outMap[assetId].m_packId # outMap0[assetId].m_packId
           /\ deps[assetId].isSuccess
           /\ \E dep \in deps[assetId].value :
                  IsValid(dep) /\ dep \notin DOMAIN outMap /\ dep \notin exclusionList

\* C20: the cascade never assigns the packId of an asset of the exclusion set
\* and never walks the dependencies of one.
C20_ExcludedSkippedEntirely ==
    wpc # "idle" =>
        \A assetId \in exclusionList :
            /\ writes[assetId] = 0
            /\ \A i \in DOMAIN stack : stack[i].assetId # assetId

\* the seeds of all packs
AllSeeds == UNION {sourcePackIdMap[p] : p \in DOMAIN sourcePackIdMap}

\* the asset matches a pattern of wildcardPatternExclusionList
MatchesPattern(assetId) ==
    \E wildcardPattern \in wildcardMatch :
        DoesAssetIdMatchWildcardPattern(assetId, wildcardPattern)

\* C21: an asset that matches a pattern and is no seed is neither relabelled nor
\* walked; an entry that matches no pattern, is valid, not excluded and a key of
\* the map has been relabelled once the walk of a seed that lists it has ended,
\* also when that seed matches a pattern.
C21_PatternSkipsTarget ==
    /\ wpc # "idle" =>
           \A assetId \in AssetIds \ AllSeeds :
               MatchesPattern(assetId) =>
                   /\ writes[assetId] = 0
                   /\ \A i \in DOMAIN stack : stack[i].assetId # assetId
    /\ wpc = "done" =>
           \A seed \in AllSeeds \cap DOMAIN outMap, dep \in DOMAIN outMap :
               (/\ DependencyEdge(seed, dep)
                /\ dep \notin exclusionList
                /\ ~MatchesPattern(dep)) => writes[dep] > 0

\* the assets of the active SetValueToDescendants calls that have fetched their
\* dependencies
ActivePath == {stack[i].assetId : i \in DOMAIN stack}

\* C22: the cycle-detection set holds exactly the assets of the active path, and
\* is empty whenever no walk is active.
C22_SetIsActivePath ==
    wpc # "idle" =>
        /\ cyclicalDependencySet = ActivePath
        /\ stack = <<>> => cyclicalDependencySet = {}

\* two calls deep, an entry of the innermost call has been walked and
\* backtracked from: it was relabelled, its lookup succeeds, and it is no longer
\* in the set
C22_Witness ==
    /\ wpc = "inner"
    /\ Len(stack) >= 2
    /\ \E dep \in AssetIds :
           /\ DependencyEdge(stack[Len(stack)].assetId, dep)
           /\ dep \notin stack[Len(stack)].todo
           /\ dep \in DOMAIN outMap
           /\ dep \notin exclusionList
           /\ ~WildcardPatternMatch(stack[Len(stack)].assetId)
           /\ writes[dep] > 0
           /\ dep \notin cyclicalDependencySet

\* the oracle is the one cycle through all assets, all of them keys of the map,
\* nothing is excluded and the seed map holds a single seed
CycleFromOneSeed ==
    /\ wpc # "idle"
    /\ DOMAIN outMap = AssetIds
    /\ NoExclusions
    /\ \A a \in AssetIds : deps[a] = Success({(a % NumAssets) + 1})
    /\ Cardinality(DOMAIN sourcePackIdMap) = 1
    /\ Cardinality(AllSeeds) = 1

\* C23 as stated: after the walk of a cycle from its only seed, the packId of
\* every asset of the cycle has been written a single time.
C23_EachWrittenOnce ==
    (CycleFromOneSeed /\ wpc = "done") =>
        \A assetId \in AssetIds : writes[assetId] = 1

\* C23, amended: during the walk of a cycle from its only seed the packId of the
\* seed is written at most twice and that of every other asset at most once;
\* after it, the seed has been written twice, every other asset once, and all
\* have the pack id of the seed.
C23_SeedWrittenTwice ==
    CycleFromOneSeed =>
        /\ \A assetId \in AssetIds :
               writes[assetId] <= (IF assetId \in AllSeeds THEN 2 ELSE 1)
        /\ wpc = "done" =>
               \A assetId \in AssetIds :
                   /\ writes[assetId] = (IF assetId \in AllSeeds THEN 2 ELSE 1)
                   /\ outMap[assetId].m_packId \in DOMAIN sourcePackIdMap

\* the walk of the cycle from its only seed, of a pack other than the one the
\* assets had, has come to its end
C23_Witness ==
    /\ CycleFromOneSeed
    /\ wpc = "done"
    /\ \A assetId \in AssetIds : outMap[assetId].m_packId # outMap0[assetId].m_packId

\* the array elements of a document in member-then-array order, each with the
\* name of its member
RECURSIVE Elements(_)
Elements(members) ==
    IF members = <<>> THEN <<>>
    ELSE [i \in DOMAIN Head(members).value |->
             [name |-> Head(members).name, object |-> Head(members).value[i]]]
         \o Elements(Tail(members))

\* C25: when ReadAssetHints has returned success, the callback has been invoked
\* once per array element, in member-then-array order: the i-th delivered record
\* has the pack id the decimal name of the member of the i-th element stands for,
\* the path of its assetHint and the asset id of its guid and subId, where the
\* element has them.
C25_OncePerElementInOrder ==
    hpc = "success" =>
        LET elements == Elements(hintFile.members)
        IN  /\ Len(delivered) = Len(elements)
            /\ \A i \in DOMAIN elements :
                   LET object == elements[i].object
                   IN  /\ delivered[i].m_packId = FromDigits(elements[i].name, 10)
                       /\ AssetHintKey \in DOMAIN object =>
                              delivered[i].m_assetRelativePath = object[AssetHintKey]
                       /\ {GuidKey, SubIdKey} \subseteq DOMAIN object =>
                              /\ Guid(delivered[i].m_assetId) = object[GuidKey][2]
                              /\ SubId(delivered[i].m_assetId) = object[SubIdKey]

\* a document of two members, one of them with a name of two digits, has been
\* read to its end
C25_Witness ==
    /\ hpc = "success"
    /\ Len(hintFile.members) >= 2
    /\ Len(delivered) >= 2
    /\ delivered[1].m_packId < 10
    /\ delivered[Len(delivered)].m_packId >= 10

\* C28: JsonLoad never dereferences a member the asset object does not have: no
\* read crashes, every delivered record has the pack id of its member, and the
\* record of an object without guid or without subId has the asset id the
\* catalog gives for its assetHint, or the invalid id when it has no assetHint.
C28_AbsentMembersNeverRead ==
    /\ hpc # "crashed"
    /\ \A i \in DOMAIN delivered :
           LET element == Elements(hintFile.members)[i]
               object == element.object
           IN  /\ delivered[i].m_packId = FromDigits(element.name, 10)
               /\ ~({GuidKey, SubIdKey} \subseteq DOMAIN object) =>
                      delivered[i].m_assetId =
                          IF AssetHintKey \in DOMAIN object
                              THEN GetAssetIdByPath(object[AssetHintKey])
                              ELSE InvalidAssetId

----------------------------------------------------------------------------
\* the archive entries whose path is a key of the destination map
Matched == DOMAIN archiveInfoMap \cap DOMAIN destInfoMap0

\* C6: after a merge, the destination record of every matched archive entry
\* has the entry's offset, size and bundlePath and the assetId and packId it
\* had before.
C6_MatchedRecordUpdatedInPlace ==
    merges = 1 =>
        \A path \in Matched :
            /\ destInfoMap[path].m_offset = archiveInfoMap[path].m_offset
            /\ destInfoMap[path].m_size = archiveInfoMap[path].m_size
            /\ destInfoMap[path].m_bundlePath = archiveInfoMap[path].m_bundlePath
            /\ destInfoMap[path].m_assetId = destInfoMap0[path].m_assetId
            /\ destInfoMap[path].m_packId = destInfoMap0[path].m_packId

\* C7: after a merge, every matched archive entry has a header record under
\* path + "_" + bundlePath with packId 0 and the entry's header offset and size.
C7_HeaderRecord ==
    merges = 1 =>
        \A path \in Matched :
            LET key == SyntheticPath(path, archiveInfoMap[path].m_bundlePath)
            IN  /\ key \in DOMAIN destInfoMap
                /\ destInfoMap[key].m_packId = 0
                /\ destInfoMap[key].m_offset = archiveInfoMap[path].m_headerOffset
                /\ destInfoMap[key].m_size = archiveInfoMap[path].m_headerSize

\* C18: a second MergeArchiveInfo of the same listing leaves the destination
\* map as the first merge left it.
C18_MergeIdempotent ==
    [][(merges >= 1 /\ merges' = merges + 1) => destInfoMap' = destInfoMap]_vars

\* the listing has been merged twice into a map it had a matched entry and a
\* manifest or delta-catalog entry for
C18_Witness ==
    /\ merges = 2
    /\ Matched # {}
    /\ \E path \in DOMAIN archiveInfoMap \ DOMAIN destInfoMap0 :
           path \in {s_manifestFileName, DeltaCatalogName}
    /\ destInfoMap # destInfoMap0

\* the archive entries whose path is no key of the destination map: the
\* manifest and delta catalog, and all others
Unmatched == DOMAIN archiveInfoMap \ DOMAIN destInfoMap0
SpecialUnmatched == Unmatched \cap {s_manifestFileName, DeltaCatalogName}
PlainUnmatched == Unmatched \ {s_manifestFileName, DeltaCatalogName}

SyntheticKeys(paths) ==
    {SyntheticPath(path, archiveInfoMap[path].m_bundlePath) : path \in paths}

\* C24: after a merge the destination map has, besides the keys it had, only the
\* synthetic keys of the matched entries and of the unmatched manifest and
\* delta-catalog entries; each of the latter holds the entry under its synthetic
\* path; no record is changed but those of matched entries and of their
\* synthetic keys.
C24_UnmatchedDiscarded ==
    merges = 1 =>
        /\ DOMAIN destInfoMap =
               DOMAIN destInfoMap0 \cup SyntheticKeys(Matched \cup SpecialUnmatched)
        /\ \A path \in SpecialUnmatched :
               LET key == SyntheticPath(path, archiveInfoMap[path].m_bundlePath)
               IN  destInfoMap[key] =
                       [archiveInfoMap[path] EXCEPT !.m_assetRelativePath = key]
        /\ \A key \in DOMAIN destInfoMap0 \ (Matched \cup SyntheticKeys(Matched)) :
               destInfoMap[key] = destInfoMap0[key]

----------------------------------------------------------------------------
Lines == logFile.lines
LinesOfKind(kind) == {i \in DOMAIN Lines : Lines[i].kind = kind}
LinesFor(first, kind) == {i \in LinesOfKind(kind) : writtenFor[i] = first}

\* the separator of pack 0 with the marker line right after it
SeparatorThenMarker ==
    \E i \in LinesFor(0, SeparatorLine.kind) :
        i + 1 \in DOMAIN Lines /\ Lines[i + 1] = MarkerLine

MarkerOnlyForPackZero ==
    \A i \in LinesOfKind(MarkerLine.kind) : writtenFor[i] = 0

\* C8 as stated: whenever pack id 0 is in the input, the written log has the
\* separator of pack 0 immediately followed by the marker line, and the marker
\* line of no other pack.
C8_PackZeroMarker ==
    lpc = "success" =>
        /\ 0 \in DOMAIN logInfoMap => SeparatorThenMarker
        /\ MarkerOnlyForPackZero

\* C8 amended: the log has the separator of pack 0 immediately followed by the
\* marker line exactly when pack id 0 is in the input together with another
\* pack id; a marker line always follows the separator of pack 0 directly.
C8_PackZeroMarkerUnlessLast ==
    /\ lpc = "success" =>
          (SeparatorThenMarker <=>
              (0 \in DOMAIN logInfoMap /\ Cardinality(DOMAIN logInfoMap) >= 2))
    /\ \A i \in LinesOfKind(MarkerLine.kind) :
          /\ writtenFor[i] = 0
          /\ i - 1 \in LinesFor(0, SeparatorLine.kind)

C8_Witness ==
    /\ lpc = "success"
    /\ DOMAIN logInfoMap = {0, MaxPackId}
    /\ \E i \in LinesFor(0, "i-read") :
          Lines[i + 1] = SeparatorLine /\ Lines[i + 2] = MarkerLine

\* the records of a group that have a line in the log
Listed(first) ==
    {info \in logInfoMap[first] : info.m_assetRelativePath \in DOMAIN logArchiveInfoMap}

\* C9: the lines of a written log are grouped by ascending pack id; each group
\* has a line per record found in the archive map, followed by exactly one
\* separator for every group but the last, which has none.
C9_AscendingGroupsOneSeparator ==
    /\ \A i, j \in DOMAIN Lines : i < j => writtenFor[i] <= writtenFor[j]
    /\ lpc = "success" =>
          \A first \in DOMAIN logInfoMap :
              /\ Cardinality(LinesFor(first, "i-read")) = Cardinality(Listed(first))
              /\ Cardinality(LinesFor(first, SeparatorLine.kind)) =
                     (IF first = Max(DOMAIN logInfoMap) THEN 0 ELSE 1)
              /\ \A i \in LinesFor(first, SeparatorLine.kind) :
                     \A j \in LinesFor(first, "i-read") : j < i

C9_Witness ==
    /\ lpc = "success"
    /\ DOMAIN logInfoMap = PackIds
    /\ Cardinality(LinesOfKind(SeparatorLine.kind)) = MaxPackId
    /\ Lines[Len(Lines)].kind = "i-read"
    /\ \E first \in DOMAIN logInfoMap : first # MaxPackId /\ Listed(first) = {}

\* C10: with an empty pack-id-keyed map or an empty archive map the writer
\* returns a failure, constructs no stream and leaves the file as it was.
C10_EmptyInputRejected ==
    (logInfoMap = EmptyMap \/ logArchiveInfoMap = EmptyMap) =>
        /\ lpc \in {"idle", "call", "failure"}
        /\ ~openAttempted
        /\ logFile = logFile0

C10_Witness ==
    /\ lpc = "failure"
    /\ logInfoMap # EmptyMap
    /\ \E first \in DOMAIN logInfoMap : logInfoMap[first] # {}
    /\ logArchiveInfoMap = EmptyMap
    /\ logFile0.exists
    /\ logFile = logFile0

----------------------------------------------------------------------------
\* C11: after a write that wrote fewer bytes than requested the writer has
\* returned a failure and the target path holds no partly written log: it holds
\* no file, or the file it held before the call.
C11_NoPartialLog ==
    logError = WriteError =>
        /\ lpc = "failure"
        /\ ~logFile.exists \/ logFile = logFile0

----------------------------------------------------------------------------
\* C12: a path-keyed insert of a record whose path is a key leaves the map as it
\* is and returns true, whatever the pack id of the record; an insert of a record
\* with a new path stores the record under the path, leaves the other records as
\* they are and returns false.
C12_FirstWriterWins ==
    [][\A packInfo \in PathRecords :
          AddAssetPackInfoToMapPath(packInfo) =>
              LET path == packInfo.m_assetRelativePath
              IN  IF path \in DOMAIN pathInfoMap
                      THEN pathInfoMap' = pathInfoMap /\ pathRet' = TRUE
                      ELSE /\ DOMAIN pathInfoMap' = DOMAIN pathInfoMap \cup {path}
                           /\ pathInfoMap'[path] = packInfo
                           /\ \A other \in DOMAIN pathInfoMap :
                                  pathInfoMap'[other] = pathInfoMap[other]
                           /\ pathRet' = FALSE]_vars

\* a path whose record was refused a lower pack id by the last insert, next to a
\* record with archive coordinates
C12_Witness ==
    /\ pathRet = TRUE
    /\ \E path \in DOMAIN pathInfoMap :
          /\ Min(pathPassed[path]) < pathInfoMap[path].m_packId
          /\ IsValid(pathInfoMap[path].m_assetId)
    /\ \E path \in DOMAIN pathInfoMap : pathInfoMap[path].m_bundlePath # ""

----------------------------------------------------------------------------
\* what an identity-keyed insert of the record stored does to the map and returns
InsertEffect(assetId, stored) ==
    IF assetId \in DOMAIN infoMap
        THEN /\ DOMAIN infoMap' = DOMAIN infoMap
             /\ \A other \in DOMAIN infoMap \ {assetId} : infoMap'[other] = infoMap[other]
             /\ infoMap'[assetId] =
                    [infoMap[assetId] EXCEPT !.m_packId = infoMap'[assetId].m_packId]
             /\ lastRet' = TRUE
        ELSE /\ DOMAIN infoMap' = DOMAIN infoMap \cup {assetId}
             /\ \A other \in DOMAIN infoMap : infoMap'[other] = infoMap[other]
             /\ infoMap'[assetId] = stored
             /\ lastRet' = FALSE

\* C13: an identity-keyed insert on an asset id that is a key changes at most
\* the packId of the record of that id and returns true; on an asset id that is
\* no key it stores the record, changes no other record and returns false.
C13_InsertFrame ==
    [][\A a \in MapIds, path \in Paths, k \in PackIds :
          /\ AddAssetPackInfoToMap(a, path, k) =>
                 InsertEffect(a, AssetPackInfo(a, path, k))
          /\ AddAssetPackInfoToMapInfo(AssetPackInfo(a, path, k)) =>
                 InsertEffect(a, AssetPackInfo(a, path, k))]_vars

\* two records in the map, one of them inserted again with a lower pack id and
\* another path: it has the lower pack id and its first path
C13_Witness ==
    /\ lastRet = TRUE
    /\ Cardinality(DOMAIN infoMap) >= 2
    /\ \E a \in DOMAIN infoMap :
          /\ Cardinality(passed[a]) >= 2
          /\ infoMap[a].m_packId = 0
          /\ infoMap[a].m_assetRelativePath # ""

----------------------------------------------------------------------------
\* the paths the asset objects of a hint file name
HintedPaths(file) ==
    {e.object[AssetHintKey] :
        e \in {x \in Range(Elements(file.members)) : AssetHintKey \in DOMAIN x.object}}

\* the paths of a --removeSeed list the catalog resolves to a valid asset id
ResolvedRemovals ==
    {path \in Range(seedsParams.m_removeSeedList) : IsValid(GetAssetIdByPath(path))}

\* C27: when a seeds command has returned true and no write of the seed hint
\* file has failed, the file has no record for a removed seed the catalog
\* resolves, also when that seed was the only record of the file.
C27_RemovedSeedStaysRemoved ==
    (spc = "true" /\ (hintWritten \/ hintCollection = EmptyMap)) =>
        HintedPaths(hintFile) \cap ResolvedRemovals = {}

\* the seeds of the --addSeed arguments of the command
AddedSeeds == UNION Range(seedsParams.m_addSeedList)

\* C30: when a seeds command has added seeds of pairwise distinct paths to an
\* empty map (no seed hint file was found), the map holds as many records as
\* seeds, one for every seed with its path and its pack id, whatever the catalog
\* resolves the paths to.
C30_OneRecordPerSeed ==
    (/\ spc = "remove"
     /\ ~hintFile.exists
     /\ \A s1, s2 \in AddedSeeds :
            s1.m_assetRelativePath = s2.m_assetRelativePath => s1 = s2) =>
        /\ Cardinality(DOMAIN seedAllAssetMap) = Cardinality(AddedSeeds)
        /\ \A seed \in AddedSeeds :
               \E record \in Range(seedAllAssetMap) :
                   /\ record.m_assetRelativePath = seed.m_assetRelativePath
                   /\ record.m_packId = seed.m_packId

====
